---- MODULE Spec2Model ----
(***************************************************************************)
(* The whitelist stores of septsat, as state machines.                     *)
(*                                                                         *)
(*   MacDatabase  (src/auth/macdb.js)        lock file + JSON file         *)
(*   MACDatabase  (src/auth/mac-database.js) JSON file, backups, log       *)
(*   handleAddMac (src/api/mac-auth.js)      one value of a key-value store*)
(*                                                                         *)
(* Every `await` of a file-system call is one step of the calling task;    *)
(* fs.writeFile / fs.writeJson take two (open with truncation, then the    *)
(* write), because a reader can run in between.  The synchronous code      *)
(* between two awaits belongs to the step that precedes it.                *)
(***************************************************************************)
EXTENDS Naturals, Integers, Sequences, FiniteSets, TLC

VARIABLES
    pc,        \* task -> the await it is suspended at ("idle" between calls)
    op,        \* task -> the call it is running: [name, mac, ...]
    local,     \* task -> the call's local variables
    result,    \* task -> what its last call returned or threw
    budget,    \* task -> calls it may still start (bounds the exploration)
    faults,    \* storage faults the environment may still inject
    clock,     \* Date.now(), in abstract ticks
    pollMs,    \* ms that pass in one pass of acquireLock's loop (>= its sleep)
    nextId,    \* the next value crypto.randomUUID() returns
    dbDir,     \* macdb.js: this.dbDir exists
    dbFile,    \* macdb.js: contents of this.dbPath
    lockFile,  \* macdb.js: contents of this.lockFile (its holder), or NoLock
    dataDir,   \* mac-database.js: this.dbPath exists
    backupDir, \* mac-database.js: this.backupDir exists
    macFile,   \* mac-database.js: contents of this.macFile
    tmpFile,   \* mac-database.js: contents of this.macFile + '.tmp'
    backups,   \* mac-database.js: backup timestamp -> contents of that backup file
    logFile,   \* mac-database.js: contents of this.logFile
    kvData     \* mac-auth.js: the value stored under MAC_DATA_KEY

macdbVars == <<dbDir, dbFile, lockFile>>
fileVars == <<dataDir, backupDir, macFile, tmpFile, backups, logFile>>
vars == <<pc, op, local, result, budget, faults, clock, pollMs, nextId, macdbVars, fileVars,
          kvData>>

----------------------------------------------------------------------------
(* Values *)

NoFile == [kind |-> "ENOENT"]     \* the path does not exist
Torn   == [kind |-> "TORN"]       \* the file exists and is not a complete JSON document
Json(doc) == [kind |-> "json", doc |-> doc]   \* a complete JSON document
NoLock == "unlocked"
NoTime == 0                       \* null, where a timestamp is expected
NoCall == [name |-> "none"]
NoResult == [kind |-> "none"]
NoData == [macAddresses |-> <<>>]  \* a local not yet assigned
NoType == ""                      \* undefined, where an accessType is expected
NoId == 0                         \* undefined, where an id is expected
Unknown == <<"u","n","k","n","o","w","n">>

Clients == {"c1", "c2"}
InitTask == "init"
Tasks == Clients \cup {InitTask}

----------------------------------------------------------------------------
(* MAC address strings, as sequences of characters *)

HexLower == {"0","1","2","3","4","5","6","7","8","9","a","b","c","d","e","f"}
HexUpper == {"A","B","C","D","E","F"}

LowerChar(c) ==
    CASE c = "A" -> "a" [] c = "B" -> "b" [] c = "C" -> "c"
      [] c = "D" -> "d" [] c = "E" -> "e" [] c = "F" -> "f"
      [] OTHER -> c

UpperChar(c) ==
    CASE c = "a" -> "A" [] c = "b" -> "B" [] c = "c" -> "C"
      [] c = "d" -> "D" [] c = "e" -> "E" [] c = "f" -> "F"
      [] OTHER -> c

\* String.prototype.toLowerCase
toLowerCase(s) == [i \in 1..Len(s) |-> LowerChar(s[i])]

\* six octets written with separator sep, in lower or upper case
Spell(octets, sep, upper) ==
    LET raw == octets[1] \o <<sep>> \o octets[2] \o <<sep>> \o octets[3] \o <<sep>>
               \o octets[4] \o <<sep>> \o octets[5] \o <<sep>> \o octets[6]
    IN  IF upper THEN [i \in 1..Len(raw) |-> UpperChar(raw[i])] ELSE raw

HwA == << <<"a","a">>, <<"b","b">>, <<"c","c">>, <<"d","d">>, <<"e","e">>, <<"f","f">> >>
HwB == << <<"0","0">>, <<"1","1">>, <<"2","2">>, <<"3","3">>, <<"4","4">>, <<"5","5">> >>

MacA      == Spell(HwA, ":", FALSE)     \* aa:bb:cc:dd:ee:ff
MacAUpper == Spell(HwA, ":", TRUE)      \* AA:BB:CC:DD:EE:FF
MacAHyph  == Spell(HwA, "-", FALSE)     \* aa-bb-cc-dd-ee-ff
MacB      == Spell(HwB, ":", FALSE)     \* 00:11:22:33:44:55
MacBad    == <<"a","a",":","b","b">>    \* too short to be a MAC address

\* the hardware address a string denotes: its hex digits, case folded
HexDigits(s) == SelectSeq(toLowerCase(s), LAMBDA c : c \in HexLower)

----------------------------------------------------------------------------
(* macdb.js: MacDatabase *)

LockTimeoutMs  == 5000
PollIntervalMs == 10

\* s.replace(/(.{2})(?=.)/g, '$1:')
RECURSIVE InsertColons(_)
InsertColons(s) ==
    IF Len(s) <= 2 THEN s
    ELSE <<s[1], s[2], ":">> \o InsertColons(SubSeq(s, 3, Len(s)))

normalizeMac(macAddress) ==
    InsertColons(SelectSeq(toLowerCase(macAddress), LAMBDA c : c \in HexLower))

\* /^([0-9a-f]{2}:){5}([0-9a-f]{2})$/i
macdb_isValidMac(s) ==
    /\ Len(s) = 17
    /\ \A i \in 1..17 :
          IF i \in {3, 6, 9, 12, 15} THEN s[i] = ":"
          ELSE s[i] \in HexLower \cup HexUpper

\* the object literal of init(): no entries
macdb_initialData == [macAddresses |-> <<>>, totalEntries |-> 0]

Has(m, k) == k \in DOMAIN m
Put(m, k, e) == [x \in DOMAIN m \cup {k} |-> IF x = k THEN e ELSE m[x]]
Del(m, k) == [x \in DOMAIN m \ {k} |-> m[x]]

\* what a second fs.writeFile leaves when it lands on a file another writer
\* completed after this writer's open: its own bytes, or a mix of both
Landed(cur, data) == IF cur = Torn THEN {data} ELSE {data, Torn}

NoLocal ==
    [data |-> NoData, norm |-> <<>>, waited |-> 0, err |-> FALSE,
     inWrite |-> FALSE, ts |-> NoTime, todel |-> <<>>, target |-> "none",
     pending |-> NoResult, logData |-> <<>>, logEntry |-> NoResult, fixed |-> 0,
     results |-> <<>>, added |-> 0, skipped |-> 0, saw |-> "none"]

\* the call of task p returns (or throws) r; base is `local`, or `local` as a
\* step has already changed it for other tasks
FinishOn(base, p, r) ==
    /\ pc' = [pc EXCEPT ![p] = "idle"]
    /\ result' = [result EXCEPT ![p] = r]
    /\ local' = [base EXCEPT ![p] = NoLocal]

Finish(p, r) == FinishOn(local, p, r)

Returned(p, r) == pc[p] = "idle" /\ result[p] = r

\* init(), lines 13-37: mkdir, access, writeFile of the initial document
macdb_init_mkdir ==
    /\ pc[InitTask] = "mkdir"
    /\ dbDir' = TRUE
    /\ pc' = [pc EXCEPT ![InitTask] = "access"]
    /\ UNCHANGED <<op, local, result, budget, faults, clock, pollMs, nextId, fileVars, kvData, dbFile, lockFile>>

macdb_init_access ==
    /\ pc[InitTask] = "access"
    /\ pc' = [pc EXCEPT ![InitTask] = IF dbFile = NoFile THEN "writeOpen" ELSE "done"]
    /\ UNCHANGED <<op, local, result, budget, faults, clock, pollMs, nextId, fileVars, kvData, dbDir, dbFile, lockFile>>

macdb_init_writeOpen ==
    /\ pc[InitTask] = "writeOpen"
    /\ dbFile' = Torn
    /\ pc' = [pc EXCEPT ![InitTask] = "writeClose"]
    /\ UNCHANGED <<op, local, result, budget, faults, clock, pollMs, nextId, fileVars, kvData, dbDir, lockFile>>

macdb_init_writeClose ==
    /\ pc[InitTask] = "writeClose"
    /\ dbFile' \in Landed(dbFile, Json(macdb_initialData))
    /\ pc' = [pc EXCEPT ![InitTask] = "done"]
    /\ UNCHANGED <<op, local, result, budget, faults, clock, pollMs, nextId, fileVars, kvData, dbDir, lockFile>>

\* the calls a client makes, with their arguments
macdb_Calls ==
    [name : {"addMacAddress", "authenticateMac", "removeMacAddress"},
     mac  : {MacA, MacAUpper, MacAHyph, MacB, MacBad}]

\* the synchronous head of each call, up to its first await
macdb_begin(p) ==
    /\ pc[p] = "idle"
    /\ budget[p] > 0
    /\ budget' = [budget EXCEPT ![p] = @ - 1]
    /\ \E c \in macdb_Calls :
          LET n == normalizeMac(c.mac) IN
          /\ op' = [op EXCEPT ![p] = c]
          /\ IF c.name # "removeMacAddress" /\ ~macdb_isValidMac(n)
             THEN IF c.name = "addMacAddress"
                  THEN Finish(p, [kind |-> "throw", message |-> "Invalid MAC address format"])
                  ELSE Finish(p, [kind |-> "return", authenticated |-> FALSE,
                                  reason |-> "Invalid MAC format"])
             ELSE /\ pc' = [pc EXCEPT ![p] = "r_acq"]
                  /\ local' = [local EXCEPT ![p] = [NoLocal EXCEPT !.norm = n]]
                  /\ UNCHANGED result
    /\ UNCHANGED <<faults, clock, pollMs, nextId, fileVars, kvData, dbDir, dbFile, lockFile>>

\* startTime taken anew in every pass of the loop: no time ever elapses
macdb_elapsed_restarted(waited) == 0

\* Date.now() - startTime (line 54) after one more failed attempt and its sleep
macdb_elapsed(waited) == waited + pollMs

\* acquireLock, lines 52-63: one pass of the polling loop
macdb_acquireLock(p) ==
    /\ pc[p] \in {"r_acq", "w_acq"}
    /\ IF local[p].waited < LockTimeoutMs
       THEN IF dbDir /\ lockFile = NoLock
            THEN /\ lockFile' = p
                 /\ pc' = [pc EXCEPT ![p] = IF pc[p] = "r_acq" THEN "r_read" ELSE "w_open"]
                 /\ UNCHANGED <<local, result>>
            ELSE /\ local' = [local EXCEPT ![p].waited = macdb_elapsed(@)]
                 /\ UNCHANGED <<pc, result, lockFile>>
       ELSE /\ Finish(p, [kind |-> "throw", message |-> "Could not acquire database lock"])
            /\ UNCHANGED lockFile
    /\ UNCHANGED <<op, budget, faults, clock, pollMs, nextId, fileVars, kvData, dbDir, dbFile>>

\* readDatabase, lines 77-82: readFile and JSON.parse under the lock
macdb_readDatabase_read(p) ==
    /\ pc[p] = "r_read"
    /\ local' = [local EXCEPT ![p] =
                    IF dbFile.kind # "json" THEN [@ EXCEPT !.err = TRUE]
                    ELSE [@ EXCEPT !.data = dbFile.doc]]
    /\ pc' = [pc EXCEPT ![p] = "r_rel"]
    /\ UNCHANGED <<op, result, budget, faults, clock, pollMs, nextId, fileVars, kvData, dbDir, dbFile, lockFile>>

\* the entry addMacAddress creates, lines 117-124
macdb_newEntry(now) == [added |-> now, active |-> TRUE, lastAccess |-> NoTime, accessCount |-> 0]

\* lines 155-156 of authenticateMac
macdb_touch(entry, now) == [entry EXCEPT !.lastAccess = now, !.accessCount = @ + 1]

\* releaseLock in readDatabase's finally, then the caller's code up to its
\* next await: the duplicate / not-found returns, or the in-memory mutation
macdb_readDatabase_release(p) ==
    /\ pc[p] = "r_rel"
    /\ lockFile' = NoLock
    /\ LET d == local[p].data
           n == local[p].norm
       IN
       IF local[p].err
       THEN Finish(p, [kind |-> "throw", message |-> "read error"]) /\ UNCHANGED clock
       ELSE CASE op[p].name = "addMacAddress" ->
                   IF Has(d.macAddresses, n)
                   THEN /\ Finish(p, [kind |-> "return", success |-> FALSE,
                                      message |-> "MAC address already exists"])
                        /\ UNCHANGED clock
                   ELSE \E tick \in 0..1 :
                        /\ clock' = clock + tick
                        /\ local' = [local EXCEPT ![p].data = [d EXCEPT !.macAddresses =
                                        Put(@, n, macdb_newEntry(clock'))],
                                     ![p].waited = 0]
                        /\ pc' = [pc EXCEPT ![p] = "w_acq"]
                        /\ UNCHANGED result
              [] op[p].name = "authenticateMac" ->
                   IF ~Has(d.macAddresses, n)
                   THEN /\ Finish(p, [kind |-> "return", authenticated |-> FALSE,
                                      reason |-> "MAC address not found"])
                        /\ UNCHANGED clock
                   ELSE IF ~d.macAddresses[n].active
                   THEN /\ Finish(p, [kind |-> "return", authenticated |-> FALSE,
                                      reason |-> "MAC address is disabled"])
                        /\ UNCHANGED clock
                   ELSE \E tick \in 0..1 :
                        /\ clock' = clock + tick
                        /\ local' = [local EXCEPT ![p].data = [d EXCEPT !.macAddresses =
                                        Put(@, n, macdb_touch(d.macAddresses[n], clock'))],
                                     ![p].waited = 0]
                        /\ pc' = [pc EXCEPT ![p] = "w_acq"]
                        /\ UNCHANGED result
              [] OTHER ->
                   IF ~Has(d.macAddresses, n)
                   THEN /\ Finish(p, [kind |-> "return", success |-> FALSE,
                                      message |-> "MAC address not found"])
                        /\ UNCHANGED clock
                   ELSE /\ local' = [local EXCEPT ![p].data = [d EXCEPT !.macAddresses =
                                        Del(@, n)],
                                     ![p].waited = 0]
                        /\ pc' = [pc EXCEPT ![p] = "w_acq"]
                        /\ UNCHANGED <<result, clock>>
    /\ UNCHANGED <<op, budget, faults, pollMs, nextId, fileVars, kvData, dbDir, dbFile>>

\* writeDatabase, lines 92-94: metadata, then fs.writeFile opens this.dbPath
\* with truncation; the open is where an injected storage fault strikes
macdb_writeDatabase_open(p) ==
    /\ pc[p] = "w_open"
    /\ \/ /\ dbFile' = Torn
          /\ local' = [local EXCEPT ![p].data.totalEntries =
                          Cardinality(DOMAIN local[p].data.macAddresses)]
          /\ pc' = [pc EXCEPT ![p] = "w_write"]
          /\ UNCHANGED faults
       \/ /\ faults > 0
          /\ faults' = faults - 1
          /\ local' = [local EXCEPT ![p].err = TRUE]
          /\ pc' = [pc EXCEPT ![p] = "w_rel"]
          /\ UNCHANGED dbFile
    /\ UNCHANGED <<op, result, budget, clock, pollMs, nextId, fileVars, kvData, dbDir, lockFile>>

\* ... and writes the document
macdb_writeDatabase_write(p) ==
    /\ pc[p] = "w_write"
    /\ dbFile' \in Landed(dbFile, Json(local[p].data))
    /\ pc' = [pc EXCEPT ![p] = "w_rel"]
    /\ UNCHANGED <<op, local, result, budget, faults, clock, pollMs, nextId, fileVars, kvData, dbDir, lockFile>>

\* releaseLock in writeDatabase's finally, then the caller's return
macdb_writeDatabase_release(p) ==
    /\ pc[p] = "w_rel"
    /\ lockFile' = NoLock
    /\ IF local[p].err
       THEN Finish(p, [kind |-> "throw", message |-> "write error"])
       ELSE IF op[p].name = "authenticateMac"
       THEN Finish(p, [kind |-> "return", authenticated |-> TRUE,
                       macAddress |-> local[p].norm,
                       accessCount |-> local[p].data.macAddresses[local[p].norm].accessCount])
       ELSE Finish(p, [kind |-> "return", success |-> TRUE, macAddress |-> local[p].norm])
    /\ UNCHANGED <<op, budget, faults, clock, pollMs, nextId, fileVars, kvData, dbDir, dbFile>>

\* importMacAddresses, lines 253-277: the loop calls addMacAddress for one item
\* after the other and collects what each returned or threw. op[p] is the
\* addMacAddress in hand, with the list, the item's index and the results so
\* far; between two items, and before the return, the task is at no await
macdb_importMacAddresses(p) ==
    /\ pc[p] = "idle"
    /\ \/ /\ \/ \* the call, and the first item
                /\ "list" \notin DOMAIN op[p]
                /\ budget[p] > 0
                /\ budget' = [budget EXCEPT ![p] = @ - 1]
                /\ \E list \in {<<MacA, MacBad, MacB>>} :
                      op' = [op EXCEPT ![p] = [name |-> "addMacAddress", mac |-> list[1],
                                               list |-> list, i |-> 1, results |-> <<>>]]
             \/ \* results.push, and the next item
                /\ "list" \in DOMAIN op[p]
                /\ op[p].i < Len(op[p].list)
                /\ op' = [op EXCEPT ![p] = [@ EXCEPT !.mac = op[p].list[op[p].i + 1],
                                                      !.i = @ + 1,
                                                      !.results = Append(@, result[p])]]
                /\ UNCHANGED budget
          /\ LET n == normalizeMac(op'[p].mac) IN
             IF ~macdb_isValidMac(n)
             THEN Finish(p, [kind |-> "throw", message |-> "Invalid MAC address format"])
             ELSE /\ pc' = [pc EXCEPT ![p] = "r_acq"]
                  /\ local' = [local EXCEPT ![p] = [NoLocal EXCEPT !.norm = n]]
                  /\ UNCHANGED result
       \/ \* results.push after the last item, and the return
          /\ "list" \in DOMAIN op[p]
          /\ op[p].i = Len(op[p].list)
          /\ Len(op[p].results) < Len(op[p].list)
          /\ op' = [op EXCEPT ![p].results = Append(@, result[p])]
          /\ result' = [result EXCEPT ![p] = [kind |-> "return", results |-> op'[p].results]]
          /\ UNCHANGED <<pc, local, budget>>
    /\ UNCHANGED <<faults, clock, pollMs, nextId, fileVars, kvData, dbDir, dbFile, lockFile>>

MaxCalls == 1
SlowPollMs == 2500


macdb_Init ==
    /\ pc = [p \in Tasks |-> IF p = InitTask THEN "mkdir" ELSE "idle"]
    /\ op = [p \in Tasks |-> NoCall]
    /\ local = [p \in Tasks |-> NoLocal]
    /\ result = [p \in Tasks |-> NoResult]
    /\ budget = [p \in Tasks |-> IF p = InitTask THEN 0 ELSE MaxCalls]
    /\ faults = 0
    /\ clock = 1
    /\ pollMs = SlowPollMs
    /\ nextId = 1
    /\ dbDir = FALSE
    /\ dbFile = NoFile
    /\ lockFile = NoLock
    /\ dataDir = FALSE
    /\ backupDir = FALSE
    /\ macFile = NoFile
    /\ tmpFile = NoFile
    /\ backups = <<>>
    /\ logFile = NoFile
    /\ kvData = <<>>

macdb_Next ==
    \/ macdb_init_mkdir
    \/ macdb_init_access
    \/ macdb_init_writeOpen
    \/ macdb_init_writeClose
    \/ \E p \in Clients : macdb_begin(p)
    \/ \E p \in Clients : macdb_acquireLock(p)
    \/ \E p \in Clients : macdb_readDatabase_read(p)
    \/ \E p \in Clients : macdb_readDatabase_release(p)
    \/ \E p \in Clients : macdb_writeDatabase_open(p)
    \/ \E p \in Clients : macdb_writeDatabase_write(p)
    \/ \E p \in Clients : macdb_writeDatabase_release(p)

SpecLockFile == macdb_Init /\ [][macdb_Next]_vars

----------------------------------------------------------------------------
(* mac-database.js: MACDatabase *)

MaxBackups   == 10
MaxLogEvents == 1000

\* the document initializeDatabase writes and readDatabase falls back to
initialData == [macAddresses |-> <<>>, totalAccesses |-> 0, totalDevices |-> 0]
initialLog == [accessEvents |-> <<>>]

\* initializeDatabase, lines 22-59
initializeDatabase_ensureDbPath ==
    /\ pc[InitTask] = "ensureDbPath"
    /\ dataDir' = TRUE
    /\ pc' = [pc EXCEPT ![InitTask] = "ensureBackupDir"]
    /\ UNCHANGED <<op, local, result, budget, faults, clock, pollMs, nextId, macdbVars, kvData,
                   backupDir, macFile, tmpFile, backups, logFile>>

initializeDatabase_ensureBackupDir ==
    /\ pc[InitTask] = "ensureBackupDir"
    /\ backupDir' = TRUE
    /\ pc' = [pc EXCEPT ![InitTask] = "macExists"]
    /\ UNCHANGED <<op, local, result, budget, faults, clock, pollMs, nextId, macdbVars, kvData,
                   dataDir, macFile, tmpFile, backups, logFile>>

initializeDatabase_macExists ==
    /\ pc[InitTask] = "macExists"
    /\ pc' = [pc EXCEPT ![InitTask] = IF macFile = NoFile THEN "macOpen" ELSE "logExists"]
    /\ UNCHANGED <<op, local, result, budget, faults, clock, pollMs, nextId, macdbVars, kvData, fileVars>>

\* line 41, fs.writeJson(this.macFile): the open, which truncates whatever
\* has been put at this.macFile since the test of line 29 ...
initializeDatabase_macOpen ==
    /\ pc[InitTask] = "macOpen"
    /\ macFile' = Torn
    /\ pc' = [pc EXCEPT ![InitTask] = "macWrite"]
    /\ local' = [local EXCEPT ![InitTask].target = "mac"]
    /\ UNCHANGED <<op, result, budget, faults, clock, pollMs, nextId, macdbVars, kvData,
                   dataDir, backupDir, tmpFile, backups, logFile>>

\* ... and the write, into the file that was opened: when a rename has put
\* another file at this.macFile since, the document goes to the replaced file
initializeDatabase_macWrite ==
    /\ pc[InitTask] = "macWrite"
    /\ IF local[InitTask].target = "mac"
       THEN macFile' \in Landed(macFile, Json(initialData))
       ELSE UNCHANGED macFile
    /\ pc' = [pc EXCEPT ![InitTask] = "logExists"]
    /\ local' = [local EXCEPT ![InitTask] = NoLocal]
    /\ UNCHANGED <<op, result, budget, faults, clock, pollMs, nextId, macdbVars, kvData,
                   dataDir, backupDir, tmpFile, backups, logFile>>

initializeDatabase_logExists ==
    /\ pc[InitTask] = "logExists"
    /\ pc' = [pc EXCEPT ![InitTask] = IF logFile = NoFile THEN "logOpen" ELSE "done"]
    /\ UNCHANGED <<op, local, result, budget, faults, clock, pollMs, nextId, macdbVars, kvData, fileVars>>

initializeDatabase_logOpen ==
    /\ pc[InitTask] = "logOpen"
    /\ logFile' = Torn
    /\ pc' = [pc EXCEPT ![InitTask] = "logWrite"]
    /\ UNCHANGED <<op, local, result, budget, faults, clock, pollMs, nextId, macdbVars, kvData,
                   dataDir, backupDir, macFile, tmpFile, backups>>

initializeDatabase_logWrite ==
    /\ pc[InitTask] = "logWrite"
    /\ logFile' \in Landed(logFile, Json(initialLog))
    /\ pc' = [pc EXCEPT ![InitTask] = "done"]
    /\ UNCHANGED <<op, local, result, budget, faults, clock, pollMs, nextId, macdbVars, kvData,
                   dataDir, backupDir, macFile, tmpFile, backups>>

\* the entry addMACAddress (lines 251-259) and bulkAddMACs (448-456) create
newEntry(accessType, now, id) ==
    [accessType |-> accessType, addedAt |-> now, updatedAt |-> NoTime,
     lastSeen |-> NoTime, accessCount |-> 0, id |-> id]

\* checkAccess counting the access without recording when it was seen
touch_countOnly(entry, now) == [entry EXCEPT !.accessCount = @ + 1]

\* lines 181-182 of checkAccess
touch(entry, now) == [entry EXCEPT !.lastSeen = now, !.accessCount = @ + 1]

\* lines 299-300 of updateMACAccess
retype(entry, accessType, now) == [entry EXCEPT !.accessType = accessType, !.updatedAt = now]

\* the loop of checkAccess, lines 174-177: the index of the first candidate
\* whose lower-cased form is a key, or 0
RECURSIVE firstMatch(_, _, _)
firstMatch(macAddresses, list, i) ==
    IF i > Len(list) THEN 0
    ELSE IF Has(macAddresses, toLowerCase(list[i])) THEN i
    ELSE firstMatch(macAddresses, list, i + 1)

\* slice(0, 1000) in place of slice(-1000): the first 1000 are kept
logAccess_push_oldest(accessEvents, logEntry) ==
    LET pushed == Append(accessEvents, logEntry)
    IN  IF Len(pushed) > MaxLogEvents THEN SubSeq(pushed, 1, MaxLogEvents) ELSE pushed

\* lines 154-159 of logAccess: push, then keep the last 1000
logAccess_push(accessEvents, logEntry) ==
    LET pushed == Append(accessEvents, logEntry)
    IN  IF Len(pushed) > MaxLogEvents
        THEN SubSeq(pushed, Len(pushed) - MaxLogEvents + 1, Len(pushed))
        ELSE pushed

\* lines 72-79 of backupDatabase: the backups beyond the 10 newest, in the
\* order of sortedBackups (file names sort as their timestamps do)
RECURSIVE sortedDesc(_)
sortedDesc(S) ==
    IF S = {} THEN <<>>
    ELSE LET m == CHOOSE x \in S : \A y \in S : y <= x
         IN  <<m>> \o sortedDesc(S \ {m})

\* sort() without reverse(): the backups beyond the 10 oldest
filesToDelete_unreversed(names) ==
    LET desc == sortedDesc(names)
        sortedBackups == [i \in 1..Len(desc) |-> desc[Len(desc) + 1 - i]]
    IN  IF Len(sortedBackups) > MaxBackups
        THEN SubSeq(sortedBackups, MaxBackups + 1, Len(sortedBackups))
        ELSE <<>>

filesToDelete(names) ==
    LET sortedBackups == sortedDesc(names)
    IN  IF Len(sortedBackups) > MaxBackups
        THEN SubSeq(sortedBackups, MaxBackups + 1, Len(sortedBackups))
        ELSE <<>>

\* backupDatabase returned: on to writeDatabase's own write, or (called from
\* maintenance) to the clean-up of the log
AfterBackup(p, loc) ==
    /\ pc' = [pc EXCEPT ![p] = IF loc.inWrite THEN "w_open" ELSE "m_exists"]
    /\ local' = [local EXCEPT ![p] = loc]
    /\ UNCHANGED result

\* a call enters writeDatabase(data): backupDatabase takes its timestamp
EnterWrite(p, loc, data, now) ==
    /\ pc' = [pc EXCEPT ![p] = "b_exists"]
    /\ local' = [local EXCEPT ![p] = [loc EXCEPT !.data = data, !.inWrite = TRUE, !.ts = now]]

\* a call enters logAccess and will return `pending` after it
EnterLog(base, p, macAddress, success, message, pending) ==
    /\ pc' = [pc EXCEPT ![p] = "l_exists"]
    /\ local' = [base EXCEPT ![p].pending = pending,
                             ![p].logEntry = [macAddress |-> macAddress,
                                              success |-> success, message |-> message]]

Fail(message) == [kind |-> "return", success |-> FALSE, message |-> message]

\* entry.accessType || 'trial'
orTrial(accessType) == IF accessType = NoType THEN "trial" ELSE accessType

\* lines 66-69 of backupDatabase
backupDatabase_exists(p) ==
    /\ pc[p] = "b_exists"
    /\ pc' = [pc EXCEPT ![p] = IF macFile # NoFile THEN "b_copy" ELSE "b_readdir"]
    /\ UNCHANGED <<op, local, result, budget, faults, clock, pollMs, nextId, macdbVars, kvData, fileVars>>

\* fs.copy creates the destination's directory and replaces an existing file;
\* a fault makes it throw, which ends backupDatabase in its catch
backupDatabase_copy(p) ==
    /\ pc[p] = "b_copy"
    /\ \/ /\ backups' = Put(backups, local[p].ts, macFile)
          /\ backupDir' = TRUE
          /\ pc' = [pc EXCEPT ![p] = "b_readdir"]
          /\ UNCHANGED <<local, result, faults>>
       \/ /\ faults > 0
          /\ faults' = faults - 1
          /\ AfterBackup(p, local[p])
          /\ UNCHANGED <<backups, backupDir>>
    /\ UNCHANGED <<op, budget, clock, pollMs, nextId, macdbVars, kvData, dataDir, macFile, tmpFile, logFile>>

\* lines 72-79; readdir of a missing directory throws into the catch
backupDatabase_readdir(p) ==
    /\ pc[p] = "b_readdir"
    /\ LET del == IF backupDir THEN filesToDelete(DOMAIN backups) ELSE <<>>
       IN  IF del = <<>>
           THEN AfterBackup(p, local[p])
           ELSE /\ pc' = [pc EXCEPT ![p] = "b_remove"]
                /\ local' = [local EXCEPT ![p].todel = del]
                /\ UNCHANGED result
    /\ UNCHANGED <<op, budget, faults, clock, pollMs, nextId, macdbVars, kvData, fileVars>>

\* lines 80-82: one fs.remove of the loop (no error when the file is gone)
backupDatabase_remove(p) ==
    /\ pc[p] = "b_remove"
    /\ backups' = Del(backups, Head(local[p].todel))
    /\ IF Len(local[p].todel) = 1
       THEN AfterBackup(p, [local[p] EXCEPT !.todel = <<>>])
       ELSE /\ local' = [local EXCEPT ![p].todel = Tail(@)]
            /\ UNCHANGED <<pc, result>>
    /\ UNCHANGED <<op, budget, faults, clock, pollMs, nextId, macdbVars, kvData,
                   dataDir, backupDir, macFile, tmpFile, logFile>>

\* addMACAddress not looking at what writeDatabase returned
addMACAddress_return_unchecked(success, normalizedMac, entry) ==
    [kind |-> "return", success |-> TRUE, message |-> "MAC address added successfully",
     macAddress |-> normalizedMac, data |-> entry]

\* lines 261-275 of addMACAddress: what it returns after writeDatabase
addMACAddress_return(success, normalizedMac, entry) ==
    IF success
    THEN [kind |-> "return", success |-> TRUE, message |-> "MAC address added successfully",
          macAddress |-> normalizedMac, data |-> entry]
    ELSE Fail("Failed to save to database")

\* lines 302-316 of updateMACAccess
updateMACAccess_return(success, normalizedMac, entry) ==
    IF success
    THEN [kind |-> "return", success |-> TRUE, message |-> "Access type updated successfully",
          macAddress |-> normalizedMac, data |-> entry]
    ELSE Fail("Failed to save to database")

\* lines 341-355 of removeMACAddress
removeMACAddress_return(success, normalizedMac) ==
    IF success
    THEN [kind |-> "return", success |-> TRUE, message |-> "MAC address removed successfully",
          macAddress |-> normalizedMac]
    ELSE Fail("Failed to save to database")

\* bulkAddMACs giving the number of entries added as the total
bulkAddMACs_return_added(success, results, total, added, skipped) ==
    IF success
    THEN [kind |-> "return", success |-> TRUE, message |-> "Bulk operation completed",
          results |-> results, total |-> added, added |-> added, skipped |-> skipped]
    ELSE Fail("Failed to save bulk changes to database")

\* lines 467-488 of bulkAddMACs
bulkAddMACs_return(success, results, total, added, skipped) ==
    IF success
    THEN [kind |-> "return", success |-> TRUE, message |-> "Bulk operation completed",
          results |-> results, total |-> total, added |-> added, skipped |-> skipped]
    ELSE Fail("Failed to save bulk changes to database")

\* lines 198-211 of checkAccess: what it returns after logAccess
checkAccess_granted(normalizedMac, entry) ==
    [kind |-> "return", success |-> TRUE, message |-> "Device authorized",
     macAddress |-> normalizedMac, accessType |-> orTrial(entry.accessType),
     lastSeen |-> entry.lastSeen, accessCount |-> entry.accessCount]

\* null, where an object is expected
Null == [kind |-> "null"]

\* lines 218-222 of checkAccess: what it returns when no candidate matched
checkAccess_denied ==
    [kind |-> "return", success |-> FALSE,
     message |-> "Device not authorized. MAC address not in whitelist.", data |-> Null]

\* writeDatabase returned `ok` to the call that awaited it
AfterWrite(base, p, ok) ==
    LET d == local[p].data
        n == local[p].norm
    IN
    CASE op[p].name = "checkAccess" ->
            \* lines 195-211: the result of writeDatabase is not looked at
            /\ EnterLog(base, p, n, TRUE, "Access granted",
                        checkAccess_granted(n, d.macAddresses[n]))
            /\ UNCHANGED result
      [] op[p].name = "maintenance" ->
            \* lines 562-576: nor here
            FinishOn(base, p, [kind |-> "return", success |-> TRUE,
                               message |-> "Maintenance completed successfully",
                               entriesFixed |-> local[p].fixed])
      [] op[p].name = "addMACAddress" ->
            FinishOn(base, p, addMACAddress_return(ok, n, d.macAddresses[n]))
      [] op[p].name = "updateMACAccess" ->
            FinishOn(base, p, updateMACAccess_return(ok, n, d.macAddresses[n]))
      [] op[p].name = "removeMACAddress" ->
            FinishOn(base, p, removeMACAddress_return(ok, n))
      [] op[p].name = "bulkAddMACs" ->
            FinishOn(base, p, bulkAddMACs_return(ok, local[p].results, Len(op[p].list),
                                                 local[p].added, local[p].skipped))
      [] OTHER -> FALSE

\* lines 116-121 of writeDatabase: the statistics, then fs.writeJson opens the
\* temporary file with truncation (it throws when the directory is missing or
\* on a storage fault, and writeDatabase returns false)
writeDatabase_open(p) ==
    /\ pc[p] = "w_open"
    /\ \/ /\ dataDir
          /\ tmpFile' = Torn
          /\ pc' = [pc EXCEPT ![p] = "w_write"]
          /\ local' = [local EXCEPT ![p].target = "tmp",
                                    ![p].data.totalDevices =
                                        Cardinality(DOMAIN local[p].data.macAddresses)]
          /\ UNCHANGED <<result, faults>>
       \/ /\ ~dataDir
          /\ AfterWrite(local, p, FALSE)
          /\ UNCHANGED <<tmpFile, faults>>
       \/ /\ faults > 0
          /\ faults' = faults - 1
          /\ AfterWrite(local, p, FALSE)
          /\ UNCHANGED tmpFile
    /\ UNCHANGED <<op, budget, clock, pollMs, nextId, macdbVars, kvData,
                   dataDir, backupDir, macFile, backups, logFile>>

\* ... and writes the document into the file it opened, wherever a rename
\* has put that file since
writeDatabase_write(p) ==
    /\ pc[p] = "w_write"
    /\ CASE local[p].target = "tmp" ->
               tmpFile' \in Landed(tmpFile, Json(local[p].data)) /\ UNCHANGED macFile
         [] local[p].target = "mac" ->
               macFile' \in Landed(macFile, Json(local[p].data)) /\ UNCHANGED tmpFile
         [] OTHER -> UNCHANGED <<macFile, tmpFile>>
    /\ pc' = [pc EXCEPT ![p] = "w_check"]
    /\ UNCHANGED <<op, local, result, budget, faults, clock, pollMs, nextId, macdbVars, kvData,
                   dataDir, backupDir, backups, logFile>>

\* line 122, fs.move(tempFile, this.macFile) without { overwrite: true }:
\* fs-extra first stats the source and, overwrite being false by default,
\* throws 'dest already exists.' when the destination exists
writeDatabase_moveCheck(p) ==
    /\ pc[p] = "w_check"
    /\ IF tmpFile = NoFile \/ macFile # NoFile
       THEN AfterWrite(local, p, FALSE)
       ELSE /\ pc' = [pc EXCEPT ![p] = "w_rename"]
            /\ UNCHANGED <<local, result>>
    /\ UNCHANGED <<op, budget, faults, clock, pollMs, nextId, macdbVars, kvData, fileVars>>

\* a task still writing into a file follows that file through a rename
Retarget(q) ==
    IF pc[q] = "w_write" /\ local[q].target = "tmp" THEN [local[q] EXCEPT !.target = "mac"]
    ELSE IF pc[q] \in {"w_write", "macWrite"} /\ local[q].target = "mac"
         THEN [local[q] EXCEPT !.target = "gone"]
    ELSE local[q]

\* ... then renames
writeDatabase_moveRename(p) ==
    /\ pc[p] = "w_rename"
    /\ IF tmpFile = NoFile
       THEN /\ AfterWrite(local, p, FALSE)
            /\ UNCHANGED <<macFile, tmpFile>>
       ELSE /\ macFile' = tmpFile
            /\ tmpFile' = NoFile
            /\ AfterWrite([q \in DOMAIN local |-> Retarget(q)], p, TRUE)
    /\ UNCHANGED <<op, budget, faults, clock, pollMs, nextId, macdbVars, kvData,
                   dataDir, backupDir, backups, logFile>>

\* the entry logAccess builds, lines 138-152
logEntryOf(e, now, id) ==
    [timestamp |-> now, macAddress |-> e.macAddress, success |-> e.success,
     message |-> e.message, id |-> id]

\* lines 134-136 of logAccess: without a log file the default log is used
logAccess_exists(p) ==
    /\ pc[p] = "l_exists"
    /\ IF logFile # NoFile
       THEN /\ pc' = [pc EXCEPT ![p] = "l_read"]
            /\ UNCHANGED <<local, clock, nextId>>
       ELSE \E tick \in 0..1 :
            /\ clock' = clock + tick
            /\ nextId' = nextId + 1
            /\ local' = [local EXCEPT ![p].logData =
                   logAccess_push(<<>>, logEntryOf(local[p].logEntry, clock', nextId))]
            /\ pc' = [pc EXCEPT ![p] = "l_open"]
    /\ UNCHANGED <<op, result, budget, faults, pollMs, macdbVars, kvData, fileVars>>

\* fs.readJson(this.logFile); a torn file throws into logAccess's catch
logAccess_read(p) ==
    /\ pc[p] = "l_read"
    /\ IF logFile.kind = "json"
       THEN \E tick \in 0..1 :
            /\ clock' = clock + tick
            /\ nextId' = nextId + 1
            /\ local' = [local EXCEPT ![p].logData =
                   logAccess_push(logFile.doc.accessEvents,
                                  logEntryOf(local[p].logEntry, clock', nextId))]
            /\ pc' = [pc EXCEPT ![p] = "l_open"]
            /\ UNCHANGED result
       ELSE /\ Finish(p, local[p].pending)
            /\ UNCHANGED <<clock, nextId>>
    /\ UNCHANGED <<op, budget, faults, pollMs, macdbVars, kvData, fileVars>>

\* line 161, fs.writeJson(this.logFile): the open ...
logAccess_open(p) ==
    /\ pc[p] = "l_open"
    /\ IF dataDir
       THEN /\ logFile' = Torn
            /\ pc' = [pc EXCEPT ![p] = "l_write"]
            /\ UNCHANGED <<local, result>>
       ELSE /\ Finish(p, local[p].pending)
            /\ UNCHANGED logFile
    /\ UNCHANGED <<op, budget, faults, clock, pollMs, nextId, macdbVars, kvData,
                   dataDir, backupDir, macFile, tmpFile, backups>>

\* ... and the write; logAccess returns and so does the call
logAccess_write(p) ==
    /\ pc[p] = "l_write"
    /\ logFile' \in Landed(logFile, Json([accessEvents |-> local[p].logData]))
    /\ Finish(p, local[p].pending)
    /\ UNCHANGED <<op, budget, faults, clock, pollMs, nextId, macdbVars, kvData,
                   dataDir, backupDir, macFile, tmpFile, backups>>

\* the loop of bulkAddMACs, lines 437-465
RECURSIVE bulkAddMACs_loop(_, _, _, _)
bulkAddMACs_loop(list, i, acc, now) ==
    IF i > Len(list) THEN acc
    ELSE LET normalizedMac == toLowerCase(list[i].macAddress)
         IN  IF Has(acc.macAddresses, normalizedMac)
             THEN bulkAddMACs_loop(list, i + 1,
                     [acc EXCEPT !.results = Append(@, [macAddress |-> normalizedMac,
                                                        status |-> "skipped"]),
                                 !.skipped = @ + 1], now)
             ELSE bulkAddMACs_loop(list, i + 1,
                     [acc EXCEPT !.macAddresses =
                                     Put(@, normalizedMac,
                                         newEntry(orTrial(list[i].accessType), now, acc.id)),
                                 !.results = Append(@, [macAddress |-> normalizedMac,
                                                        status |-> "added"]),
                                 !.added = @ + 1,
                                 !.id = @ + 1], now)

\* the sweep of maintenance, lines 551-560, over the keys in some order
RECURSIVE maintenance_sweep(_, _, _)
maintenance_sweep(macAddresses, keys, acc) ==
    IF keys = {} THEN acc
    ELSE LET mac == CHOOSE k \in keys : TRUE
             entry == macAddresses[mac]
             noId == entry.id = NoId
             noType == entry.accessType = NoType
             fixedEntry == [entry EXCEPT !.id = IF noId THEN acc.id ELSE @,
                                         !.accessType = IF noType THEN "trial" ELSE @]
         IN  maintenance_sweep(macAddresses, keys \ {mac},
                [macAddresses |-> Put(acc.macAddresses, mac, fixedEntry),
                 id |-> IF noId THEN acc.id + 1 ELSE acc.id,
                 fixedCount |-> acc.fixedCount + (IF noId THEN 1 ELSE 0)
                                               + (IF noType THEN 1 ELSE 0)])

\* lines 371-372 of listMACAddresses, in ms
Day24h == 86400000
Day7d == 7 * Day24h

\* statistics.total taken as the number of trial entries
listMACAddresses_total_trial(macAddresses) ==
    Cardinality({k \in DOMAIN macAddresses : orTrial(macAddresses[k].accessType) = "trial"})

\* line 390 of listMACAddresses: macList.length
listMACAddresses_total(macAddresses) == Cardinality(DOMAIN macAddresses)

\* lines 389-408 of listMACAddresses; each filter(...).length is the number
\* of keys whose entry passes the filter
listMACAddresses_statistics(data, now) ==
    LET macList == data.macAddresses
        keys == DOMAIN macList
    IN  [total |-> listMACAddresses_total(macList),
         activeLast24h |-> Cardinality({k \in keys :
                              macList[k].lastSeen # NoTime
                              /\ now - macList[k].lastSeen <= Day24h}),
         activeLast7d |-> Cardinality({k \in keys :
                              macList[k].lastSeen # NoTime
                              /\ now - macList[k].lastSeen <= Day7d}),
         neverUsed |-> Cardinality({k \in keys : macList[k].lastSeen = NoTime}),
         totalAccesses |-> data.totalAccesses,
         trial |-> Cardinality({k \in keys : orTrial(macList[k].accessType) = "trial"}),
         unlimited |-> Cardinality({k \in keys : macList[k].accessType = "unlimited"}),
         admin |-> Cardinality({k \in keys : macList[k].accessType = "admin"})]

\* lines 375-386 and 410-417 of listMACAddresses
listMACAddresses_return(data, now) ==
    [kind |-> "return", success |-> TRUE,
     message |-> "MAC addresses retrieved successfully",
     macAddresses |-> [k \in DOMAIN data.macAddresses |->
                          [data.macAddresses[k] EXCEPT !.accessType = orTrial(@)]],
     statistics |-> listMACAddresses_statistics(data, now)]

\* removeMACAddress not testing for the key at all
removeMACAddress_missing_never(macAddresses, normalizedMac) == FALSE

\* line 333 of removeMACAddress: !data.macAddresses[normalizedMac]
removeMACAddress_missing(macAddresses, normalizedMac) == ~Has(macAddresses, normalizedMac)

\* addMACAddress not testing for the key at all
addMACAddress_exists_never(macAddresses, normalizedMac) == FALSE

\* line 243 of addMACAddress: data.macAddresses[normalizedMac] is truthy
addMACAddress_exists(macAddresses, normalizedMac) == Has(macAddresses, normalizedMac)

\* the synchronous head of each call, up to its first await
begin(p, calls) ==
    /\ pc[p] = "idle"
    /\ budget[p] > 0
    /\ budget' = [budget EXCEPT ![p] = @ - 1]
    /\ \E c \in calls :
          /\ op' = [op EXCEPT ![p] = c]
          /\ result' = [result EXCEPT ![p] = NoResult]
          /\ IF c.name = "maintenance"
             THEN \E tick \in 0..1 :
                  /\ clock' = clock + tick
                  /\ pc' = [pc EXCEPT ![p] = "b_exists"]
                  /\ local' = [local EXCEPT ![p] = [NoLocal EXCEPT !.ts = clock']]
             ELSE /\ pc' = [pc EXCEPT ![p] = IF c.name = "getAccessLogs" THEN "g_exists" ELSE "r"]
                  /\ local' = [local EXCEPT ![p] = [NoLocal EXCEPT !.norm =
                         IF c.name \in {"addMACAddress", "updateMACAccess", "removeMACAddress"}
                         THEN toLowerCase(c.macAddress) ELSE <<>>]]
                  /\ UNCHANGED clock
    /\ UNCHANGED <<faults, pollMs, nextId, macdbVars, kvData, fileVars>>

\* readDatabase, lines 90-108: the document of the file, or the default
\* document of its catch when fs.readJson throws (no file, or no valid JSON)
readDatabase_value(file) == IF file.kind = "json" THEN file.doc ELSE initialData

\* readDatabase, and the caller's code up to its next await; `saw` keeps what
\* the read found at this.macFile
readDatabase(p) ==
    /\ pc[p] = "r"
    /\ LET data == readDatabase_value(macFile)
           n == local[p].norm
           c == op[p]
           me == [local[p] EXCEPT !.saw = macFile.kind]
       IN
       CASE c.name = "addMACAddress" ->
               IF addMACAddress_exists(data.macAddresses, n)
               THEN /\ Finish(p, Fail("MAC address already exists in whitelist"))
                    /\ UNCHANGED <<clock, nextId>>
               ELSE \E tick \in 0..1 :
                    /\ clock' = clock + tick
                    /\ nextId' = nextId + 1
                    /\ EnterWrite(p, me,
                          [data EXCEPT !.macAddresses =
                              Put(@, n, newEntry(c.accessType, clock', nextId))], clock')
                    /\ UNCHANGED result
         [] c.name = "updateMACAccess" ->
               IF ~Has(data.macAddresses, n)
               THEN /\ Finish(p, Fail("MAC address not found in whitelist"))
                    /\ UNCHANGED <<clock, nextId>>
               ELSE \E tick \in 0..1 :
                    /\ clock' = clock + tick
                    /\ EnterWrite(p, me,
                          [data EXCEPT !.macAddresses[n] = retype(@, c.accessType, clock')],
                          clock')
                    /\ UNCHANGED <<result, nextId>>
         [] c.name = "removeMACAddress" ->
               IF removeMACAddress_missing(data.macAddresses, n)
               THEN /\ Finish(p, Fail("MAC address not found in whitelist"))
                    /\ UNCHANGED <<clock, nextId>>
               ELSE \E tick \in 0..1 :
                    /\ clock' = clock + tick
                    /\ EnterWrite(p, me,
                          [data EXCEPT !.macAddresses = Del(@, n)], clock')
                    /\ UNCHANGED <<result, nextId>>
         [] c.name = "checkAccess" ->
               LET i == firstMatch(data.macAddresses, c.macAddresses, 1) IN
               IF i = 0
               THEN /\ EnterLog([local EXCEPT ![p] = me], p,
                          IF c.macAddresses = <<>> THEN Unknown ELSE c.macAddresses[1],
                          FALSE, "MAC address not whitelisted", checkAccess_denied)
                    /\ UNCHANGED <<result, clock, nextId>>
               ELSE LET normalizedMac == toLowerCase(c.macAddresses[i]) IN
                    \E tick \in 0..1 :
                    /\ clock' = clock + tick
                    /\ EnterWrite(p, [me EXCEPT !.norm = normalizedMac],
                          [data EXCEPT !.macAddresses[normalizedMac] = touch(@, clock'),
                                       !.totalAccesses = @ + 1], clock')
                    /\ UNCHANGED <<result, nextId>>
         [] c.name = "listMACAddresses" ->
               \E tick \in 0..1 :
               /\ clock' = clock + tick
               /\ Finish(p, listMACAddresses_return(data, clock'))
               /\ UNCHANGED nextId
         [] c.name = "bulkAddMACs" ->
               \E tick \in 0..1 :
               LET done == bulkAddMACs_loop(c.list, 1,
                              [macAddresses |-> data.macAddresses, results |-> <<>>,
                               added |-> 0, skipped |-> 0, id |-> nextId], clock + tick)
               IN
               /\ clock' = clock + tick
               /\ nextId' = done.id
               /\ EnterWrite(p, [me EXCEPT !.results = done.results,
                                                 !.added = done.added,
                                                 !.skipped = done.skipped],
                             [data EXCEPT !.macAddresses = done.macAddresses], clock')
               /\ UNCHANGED result
         [] c.name = "maintenance" ->
               LET swept == maintenance_sweep(data.macAddresses, DOMAIN data.macAddresses,
                               [macAddresses |-> <<>>, id |-> nextId, fixedCount |-> 0])
               IN
               /\ nextId' = swept.id
               /\ IF swept.fixedCount > 0
                  THEN \E tick \in 0..1 :
                       /\ clock' = clock + tick
                       /\ EnterWrite(p, [me EXCEPT !.fixed = swept.fixedCount],
                             [data EXCEPT !.macAddresses = swept.macAddresses], clock')
                       /\ UNCHANGED result
                  ELSE /\ Finish(p, [kind |-> "return", success |-> TRUE,
                                     message |-> "Maintenance completed successfully",
                                     entriesFixed |-> 0])
                       /\ UNCHANGED clock
         [] OTHER -> FALSE
    /\ UNCHANGED <<op, budget, faults, pollMs, macdbVars, kvData, fileVars>>

\* line 507 of getAccessLogs: Array.prototype.sort is stable, and the
\* comparator puts the later timestamp first, so an event goes behind every
\* event already placed whose timestamp is not earlier than its own
RECURSIVE getAccessLogs_sort(_, _, _)
getAccessLogs_sort(accessEvents, i, acc) ==
    IF i > Len(accessEvents) THEN acc
    ELSE LET e == accessEvents[i]
             ahead == Cardinality({k \in 1..Len(acc) : acc[k].timestamp >= e.timestamp})
         IN  getAccessLogs_sort(accessEvents, i + 1,
                SubSeq(acc, 1, ahead) \o <<e>> \o SubSeq(acc, ahead + 1, Len(acc)))

\* lines 502-504 of getAccessLogs: without a log file there are no events
getAccessLogs_exists(p) ==
    /\ pc[p] = "g_exists"
    /\ IF logFile # NoFile
       THEN /\ pc' = [pc EXCEPT ![p] = "g_read"]
            /\ UNCHANGED <<local, result>>
       ELSE Finish(p, [kind |-> "return", success |-> TRUE,
                       message |-> "Access logs retrieved successfully",
                       logs |-> <<>>, totalEvents |-> 0])
    /\ UNCHANGED <<op, budget, faults, clock, pollMs, nextId, macdbVars, kvData, fileVars>>

\* fs.readJson(this.logFile), then lines 506-517: sort and slice(0, limit);
\* a torn file throws into the catch of lines 519-526
getAccessLogs_read(p) ==
    /\ pc[p] = "g_read"
    /\ IF logFile.kind = "json"
       THEN LET accessEvents == logFile.doc.accessEvents
                sorted == getAccessLogs_sort(accessEvents, 1, <<>>)
                n == IF op[p].limit < Len(sorted) THEN op[p].limit ELSE Len(sorted)
            IN  Finish(p, [kind |-> "return", success |-> TRUE,
                           message |-> "Access logs retrieved successfully",
                           logs |-> SubSeq(sorted, 1, n),
                           totalEvents |-> Len(accessEvents)])
       ELSE Finish(p, [kind |-> "return", success |-> FALSE,
                       message |-> "Error retrieving logs", data |-> Null])
    /\ UNCHANGED <<op, budget, faults, clock, pollMs, nextId, macdbVars, kvData, fileVars>>

\* lines 538-545 of maintenance
maintenance_logExists(p) ==
    /\ pc[p] = "m_exists"
    /\ pc' = [pc EXCEPT ![p] = IF logFile # NoFile THEN "m_read" ELSE "r"]
    /\ UNCHANGED <<op, local, result, budget, faults, clock, pollMs, nextId, macdbVars, kvData, fileVars>>

maintenance_logRead(p) ==
    /\ pc[p] = "m_read"
    /\ IF logFile.kind # "json"
       THEN Finish(p, Fail("Maintenance error"))
       ELSE IF Len(logFile.doc.accessEvents) > MaxLogEvents
       THEN /\ local' = [local EXCEPT ![p].logData =
                   SubSeq(logFile.doc.accessEvents,
                          Len(logFile.doc.accessEvents) - MaxLogEvents + 1,
                          Len(logFile.doc.accessEvents))]
            /\ pc' = [pc EXCEPT ![p] = "m_open"]
            /\ UNCHANGED result
       ELSE /\ pc' = [pc EXCEPT ![p] = "r"]
            /\ UNCHANGED <<local, result>>
    /\ UNCHANGED <<op, budget, faults, clock, pollMs, nextId, macdbVars, kvData, fileVars>>

maintenance_logOpen(p) ==
    /\ pc[p] = "m_open"
    /\ logFile' = Torn
    /\ pc' = [pc EXCEPT ![p] = "m_write"]
    /\ UNCHANGED <<op, local, result, budget, faults, clock, pollMs, nextId, macdbVars, kvData,
                   dataDir, backupDir, macFile, tmpFile, backups>>

maintenance_logWrite(p) ==
    /\ pc[p] = "m_write"
    /\ logFile' \in Landed(logFile, Json([accessEvents |-> local[p].logData]))
    /\ pc' = [pc EXCEPT ![p] = "r"]
    /\ UNCHANGED <<op, local, result, budget, faults, clock, pollMs, nextId, macdbVars, kvData,
                   dataDir, backupDir, macFile, tmpFile, backups>>

\* one step of a call of task p, whichever await it is at
step(p) ==
    \/ readDatabase(p)
    \/ backupDatabase_exists(p)
    \/ backupDatabase_copy(p)
    \/ backupDatabase_readdir(p)
    \/ writeDatabase_open(p)
    \/ writeDatabase_write(p)
    \/ writeDatabase_moveCheck(p)
    \/ writeDatabase_moveRename(p)
    \/ logAccess_exists(p)
    \/ logAccess_read(p)
    \/ logAccess_open(p)
    \/ logAccess_write(p)
    \/ maintenance_logExists(p)
    \/ maintenance_logRead(p)

initializeDatabase ==
    \/ initializeDatabase_ensureDbPath
    \/ initializeDatabase_ensureBackupDir
    \/ initializeDatabase_macExists
    \/ initializeDatabase_macOpen
    \/ initializeDatabase_macWrite
    \/ initializeDatabase_logExists
    \/ initializeDatabase_logOpen
    \/ initializeDatabase_logWrite

----------------------------------------------------------------------------
(* MACDatabase from construction: initializeDatabase, which the constructor *)
(* does not await, and two clients calling concurrently                     *)

Calls ==
    [name : {"addMACAddress"}, macAddress : {MacA, MacAHyph, MacB}, accessType : {"trial"}]
    \cup [name : {"updateMACAccess"}, macAddress : {MacA}, accessType : {"unlimited"}]
    \cup [name : {"removeMACAddress"}, macAddress : {MacA}]
    \cup [name : {"checkAccess"}, macAddresses : {<<MacA>>, <<MacB, MacAUpper>>}]
    \cup [name : {"maintenance"}]

\* the constructor has returned: nothing on disk, initializeDatabase started
Constructed(calls1, calls2) ==
    /\ pc = [p \in Tasks |-> IF p = InitTask THEN "ensureDbPath" ELSE "idle"]
    /\ op = [p \in Tasks |-> NoCall]
    /\ local = [p \in Tasks |-> NoLocal]
    /\ result = [p \in Tasks |-> NoResult]
    /\ budget = [p \in Tasks |-> IF p = "c1" THEN calls1 ELSE IF p = "c2" THEN calls2 ELSE 0]
    /\ clock = 1
    /\ pollMs = PollIntervalMs
    /\ nextId = 1
    /\ dbDir = FALSE
    /\ dbFile = NoFile
    /\ lockFile = NoLock
    /\ dataDir = FALSE
    /\ backupDir = FALSE
    /\ macFile = NoFile
    /\ tmpFile = NoFile
    /\ backups = <<>>
    /\ logFile = NoFile
    /\ kvData = <<>>

Init ==
    /\ Constructed(MaxCalls, MaxCalls)
    /\ faults = 0

Next ==
    \/ initializeDatabase
    \/ \E p \in Clients : begin(p, Calls)
    \/ \E p \in Clients : step(p)

Spec == Init /\ [][Next]_vars

----------------------------------------------------------------------------
(* MACDatabase after initializeDatabase has finished, on the disk an        *)
(* earlier run has left: one client calling, one call after the other      *)

SeqCalls     == 3     \* calls the client makes
PriorBackups == 9     \* backups earlier writes have left

\* the whitelist after an earlier addMACAddress(MacA)
SeedData ==
    [macAddresses |-> Put(<<>>, MacA, newEntry("trial", 1, 1)),
     totalAccesses |-> 0, totalDevices |-> 1]

SeqCallSet ==
    [name : {"addMACAddress"}, macAddress : {MacA, MacAUpper, MacAHyph, MacB},
     accessType : {"trial"}]
    \cup [name : {"updateMACAccess"}, macAddress : {MacA, MacB}, accessType : {"unlimited"}]
    \cup [name : {"removeMACAddress"}, macAddress : {MacA, MacB}]
    \cup [name : {"bulkAddMACs"},
          list : {<<[macAddress |-> MacB, accessType |-> "admin"],
                    [macAddress |-> MacA, accessType |-> NoType]>>}]
    \cup [name : {"checkAccess"}, macAddresses : {<<MacA>>, <<MacAHyph>>}]
    \cup [name : {"listMACAddresses"}]
    \cup [name : {"maintenance"}]

\* the disk and the tasks once initializeDatabase is done
Initialized(calls, whitelist, events, nBackups) ==
    /\ pc = [p \in Tasks |-> IF p = InitTask THEN "done" ELSE "idle"]
    /\ op = [p \in Tasks |-> NoCall]
    /\ local = [p \in Tasks |-> NoLocal]
    /\ result = [p \in Tasks |-> NoResult]
    /\ budget = [p \in Tasks |-> IF p = "c1" THEN calls ELSE 0]
    /\ clock = nBackups + 1
    /\ pollMs = PollIntervalMs
    /\ nextId = Len(events) + 2
    /\ dbDir = FALSE
    /\ dbFile = NoFile
    /\ lockFile = NoLock
    /\ dataDir = TRUE
    /\ backupDir = TRUE
    /\ macFile = Json(whitelist)
    /\ tmpFile = NoFile
    /\ backups = [t \in 1..nBackups |-> Json(whitelist)]
    /\ logFile = Json([accessEvents |-> events])
    /\ kvData = <<>>

SeqInit ==
    /\ \E whitelist \in {initialData, SeedData}, n \in {0, PriorBackups} :
          Initialized(SeqCalls, whitelist, <<>>, n)
    /\ faults \in {0, 1}

\* fs.move never reaches its rename here: this.macFile exists throughout
SeqNext ==
    \/ begin("c1", SeqCallSet)
    \/ readDatabase("c1")
    \/ backupDatabase_exists("c1")
    \/ backupDatabase_copy("c1")
    \/ backupDatabase_readdir("c1")
    \/ backupDatabase_remove("c1")
    \/ writeDatabase_open("c1")
    \/ writeDatabase_write("c1")
    \/ writeDatabase_moveCheck("c1")
    \/ logAccess_exists("c1")
    \/ logAccess_read("c1")
    \/ logAccess_open("c1")
    \/ logAccess_write("c1")
    \/ maintenance_logExists("c1")
    \/ maintenance_logRead("c1")

SpecSeq == SeqInit /\ [][SeqNext]_vars

----------------------------------------------------------------------------
(* MACDatabase from construction, one client calling, one call after the    *)
(* other, while initializeDatabase runs                                    *)

SoloCalls == 2     \* calls the client makes

SoloInit ==
    /\ Constructed(SoloCalls, 0)
    /\ faults \in {0, 1}

SoloNext ==
    \/ initializeDatabase
    \/ begin("c1", SeqCallSet)
    \/ step("c1")

SpecSolo == SoloInit /\ [][SoloNext]_vars

----------------------------------------------------------------------------
(* MACDatabase with an access log that is nearly full, one client checking  *)
(* access, one call after the other                                        *)

LogCalls == 3     \* calls the client makes
LogRoom  == 2     \* appends the log can take before it is full

\* the log after n <= MaxLogEvents failed checks of MacB on a new store
Filled(n) ==
    [i \in 1..n |-> logEntryOf([macAddress |-> MacB, success |-> FALSE,
                                message |-> "MAC address not whitelisted"], 1, i + 1)]

LogCallSet == [name : {"checkAccess"}, macAddresses : {<<MacA>>, <<MacB>>, <<>>}]

LogInit ==
    /\ \E n \in {0, MaxLogEvents - LogRoom} :
          Initialized(LogCalls, SeedData, Filled(n), 0)
    /\ faults = 0

\* fs.move never reaches its rename here: this.macFile exists throughout
LogNext ==
    \/ begin("c1", LogCallSet)
    \/ readDatabase("c1")
    \/ backupDatabase_exists("c1")
    \/ backupDatabase_copy("c1")
    \/ backupDatabase_readdir("c1")
    \/ writeDatabase_open("c1")
    \/ writeDatabase_write("c1")
    \/ writeDatabase_moveCheck("c1")
    \/ logAccess_exists("c1")
    \/ logAccess_read("c1")
    \/ logAccess_open("c1")
    \/ logAccess_write("c1")

SpecLog == LogInit /\ [][LogNext]_vars

----------------------------------------------------------------------------
(* MACDatabase on whitelists of zero, one and two entries, one client       *)
(* checking access, one call after the other                               *)

CheckCalls == 3     \* calls the client makes

\* the whitelist after addMACAddress(MacA) and addMACAddress(MacB, 'unlimited')
SeedBoth ==
    [macAddresses |-> Put(SeedData.macAddresses, MacB, newEntry("unlimited", 1, 2)),
     totalAccesses |-> 0, totalDevices |-> 2]

CheckCallSet ==
    [name : {"checkAccess"},
     macAddresses : {<<>>, <<MacA>>, <<MacB>>, <<MacA, MacB>>, <<MacB, MacA>>,
                     <<MacBad, MacAUpper, MacB>>}]
    \cup [name : {"getAccessLogs"}, limit : {1, 2}]

CheckInit ==
    /\ \E whitelist \in {initialData, SeedData, SeedBoth} :
          Initialized(CheckCalls, whitelist, <<>>, 0)
    /\ faults = 0

\* fs.move never reaches its rename here: this.macFile exists throughout
CheckNext ==
    \/ begin("c1", CheckCallSet)
    \/ readDatabase("c1")
    \/ backupDatabase_exists("c1")
    \/ backupDatabase_copy("c1")
    \/ backupDatabase_readdir("c1")
    \/ writeDatabase_open("c1")
    \/ writeDatabase_write("c1")
    \/ writeDatabase_moveCheck("c1")
    \/ logAccess_exists("c1")
    \/ logAccess_read("c1")
    \/ logAccess_open("c1")
    \/ logAccess_write("c1")
    \/ getAccessLogs_exists("c1")
    \/ getAccessLogs_read("c1")

SpecCheck == CheckInit /\ [][CheckNext]_vars

----------------------------------------------------------------------------
(* MACDatabase while initializeDatabase waits, three callers at once, all  *)
(* within one tick of the clock: one adds an address, checks it, removes   *)
(* it and lists; two more add it                                            *)

\* the calls of the first caller, in order
History ==
    << [name |-> "addMACAddress", macAddress |-> MacA, accessType |-> "trial"],
       [name |-> "checkAccess", macAddresses |-> <<MacA>>],
       [name |-> "removeMACAddress", macAddress |-> MacA],
       [name |-> "listMACAddresses"] >>

Others == {"c2", "c3"}

\* initializeDatabase has made the directories (lines 24-25), has found no
\* mac-whitelist.json (line 28) and is about to write it (line 40)
TrioInit ==
    /\ pc = [p \in Tasks \cup Others |-> IF p = InitTask THEN "macOpen" ELSE "idle"]
    /\ op = [p \in Tasks \cup Others |-> NoCall]
    /\ local = [p \in Tasks \cup Others |-> NoLocal]
    /\ result = [p \in Tasks \cup Others |-> NoResult]
    /\ budget = [p \in Tasks \cup Others |->
                    IF p = "c1" THEN Len(History) ELSE IF p \in Others THEN 1 ELSE 0]
    /\ clock = 1
    /\ pollMs = PollIntervalMs
    /\ nextId = 1
    /\ dbDir = FALSE
    /\ dbFile = NoFile
    /\ lockFile = NoLock
    /\ dataDir = TRUE
    /\ backupDir = TRUE
    /\ macFile = NoFile
    /\ tmpFile = NoFile
    /\ backups = <<>>
    /\ logFile = NoFile
    /\ kvData = <<>>
    /\ faults = 0

\* initializeDatabase takes no step while the callers run; only checkAccess
\* logs, and it finds no log file
TrioNext ==
    \/ begin("c1", {History[Len(History) - budget["c1"] + 1]})
    \/ \E p \in Others : begin(p, {History[1]})
    \/ \E p \in {"c1"} \cup Others : readDatabase(p) /\ clock' = clock
    \/ \E p \in {"c1"} \cup Others : backupDatabase_exists(p)
    \/ \E p \in {"c1"} \cup Others : backupDatabase_copy(p)
    \/ \E p \in {"c1"} \cup Others : backupDatabase_readdir(p)
    \/ \E p \in {"c1"} \cup Others : writeDatabase_open(p)
    \/ \E p \in {"c1"} \cup Others : writeDatabase_write(p)
    \/ \E p \in {"c1"} \cup Others : writeDatabase_moveCheck(p)
    \/ \E p \in {"c1"} \cup Others : writeDatabase_moveRename(p)
    \/ \E p \in {"c1"} \cup Others : logAccess_exists(p) /\ clock' = clock
    \/ \E p \in {"c1"} \cup Others : logAccess_open(p)
    \/ \E p \in {"c1"} \cup Others : logAccess_write(p)

SpecTrio == TrioInit /\ [][TrioNext]_vars

----------------------------------------------------------------------------
(* MACDatabase after initializeDatabase has finished: one client changing  *)
(* access types                                                             *)

UpdateCalls == 2     \* calls the client makes

UpdateCallSet ==
    [name : {"updateMACAccess"}, macAddress : {MacA, MacB},
     accessType : {"unlimited", "admin", "superuser"}]

UpdateInit ==
    /\ \E whitelist \in {initialData, SeedData} :
          Initialized(UpdateCalls, whitelist, <<>>, 0)
    /\ faults = 0

\* fs.move never reaches its rename here: this.macFile exists throughout
UpdateNext ==
    \/ begin("c1", UpdateCallSet)
    \/ readDatabase("c1")
    \/ backupDatabase_exists("c1")
    \/ backupDatabase_copy("c1")
    \/ backupDatabase_readdir("c1")
    \/ writeDatabase_open("c1")
    \/ writeDatabase_write("c1")
    \/ writeDatabase_moveCheck("c1")

SpecUpdate == UpdateInit /\ [][UpdateNext]_vars

----------------------------------------------------------------------------
(* MACDatabase from construction, while initializeDatabase runs: one client *)
(* filling the whitelist, with strings that are no MAC address and an       *)
(* empty access type among its arguments, and running maintenance           *)

FreshCalls == 3     \* calls the client makes

FreshInit ==
    /\ Constructed(FreshCalls, 0)
    /\ faults = 0

FreshNext ==
    \/ initializeDatabase
    \/ begin("c1",
             [name : {"addMACAddress"}, macAddress : {MacA}, accessType : {NoType}]
             \cup [name : {"addMACAddress"}, macAddress : {MacBad}, accessType : {"trial"}]
             \cup [name : {"bulkAddMACs"},
                   list : {<<[macAddress |-> MacA, accessType |-> "trial"],
                             [macAddress |-> MacBad, accessType |-> "trial"],
                             [macAddress |-> MacB, accessType |-> "trial"]>>,
                           <<[macAddress |-> MacA, accessType |-> "trial"],
                             [macAddress |-> MacB, accessType |-> "admin"],
                             [macAddress |-> MacAUpper, accessType |-> "unlimited"]>>}]
             \cup [name : {"maintenance"}])
    \/ readDatabase("c1")
    \/ backupDatabase_exists("c1")
    \/ backupDatabase_copy("c1")
    \/ backupDatabase_readdir("c1")
    \/ writeDatabase_open("c1")
    \/ writeDatabase_write("c1")
    \/ writeDatabase_moveCheck("c1")
    \/ writeDatabase_moveRename("c1")
    \/ maintenance_logExists("c1")
    \/ maintenance_logRead("c1")

SpecFresh == FreshInit /\ [][FreshNext]_vars

----------------------------------------------------------------------------
(* MacDatabase from construction, while init() runs: two clients importing *)
(* a list of addresses each                                                 *)

ImportNext ==
    \/ macdb_init_mkdir
    \/ macdb_init_access
    \/ macdb_init_writeOpen
    \/ macdb_init_writeClose
    \/ \E p \in Clients : macdb_importMacAddresses(p)
    \/ \E p \in Clients : macdb_acquireLock(p)
    \/ \E p \in Clients : macdb_readDatabase_read(p)
    \/ \E p \in Clients : macdb_readDatabase_release(p)
    \/ \E p \in Clients : macdb_writeDatabase_open(p)
    \/ \E p \in Clients : macdb_writeDatabase_write(p)
    \/ \E p \in Clients : macdb_writeDatabase_release(p)

SpecImport == macdb_Init /\ [][ImportNext]_vars

----------------------------------------------------------------------------
(* MACDatabase on a whitelist written by an earlier version or by hand,     *)
(* whose entries may lack an id, an accessType or both: one client running  *)
(* maintenance, one call after the other                                    *)

SweepCalls == 2     \* calls the client makes

\* fs.move never reaches its rename here: this.macFile exists throughout
SweepInit ==
    /\ \E idA \in {NoId, 1}, typeA, typeB \in {NoType, "admin"} :
          Initialized(SweepCalls,
                      [macAddresses |->
                          Put(Put(<<>>, MacA, newEntry(typeA, 1, idA)),
                              MacB, newEntry(typeB, 1, NoId)),
                       totalAccesses |-> 0, totalDevices |-> 2],
                      <<>>, 0)
    /\ faults = 0

SweepNext ==
    \/ begin("c1", [name : {"maintenance"}])
    \/ backupDatabase_exists("c1")
    \/ backupDatabase_copy("c1")
    \/ backupDatabase_readdir("c1")
    \/ maintenance_logExists("c1")
    \/ maintenance_logRead("c1")
    \/ readDatabase("c1")
    \/ writeDatabase_open("c1")
    \/ writeDatabase_write("c1")
    \/ writeDatabase_moveCheck("c1")

SpecSweep == SweepInit /\ [][SweepNext]_vars

----------------------------------------------------------------------------
(* The add-mac handler of src/api/mac-auth.js: the whole whitelist is one   *)
(* value of a key-value store, read by kv.get and replaced by kv.set; two   *)
(* requests are served at the same time, and a kv call can fail             *)

\* isValidMac, line 37: /^([0-9A-Fa-f]{2}[:-]){5}([0-9A-Fa-f]{2})$/
kv_isValidMac(s) ==
    /\ Len(s) = 17
    /\ \A i \in 1..17 :
          IF i \in {3, 6, 9, 12, 15} THEN s[i] \in {":", "-"}
          ELSE s[i] \in HexLower \cup HexUpper

\* handleAddMac, lines 137-162: the checks of the request, up to the await
\* of getAllMacAddresses
handleAddMac(p) ==
    /\ pc[p] = "idle"
    /\ budget[p] > 0
    /\ budget' = [budget EXCEPT ![p] = @ - 1]
    /\ \E c \in [name : {"handleAddMac"}, adminKey : {"122316", "0"},
                 macAddress : {MacA, MacAUpper, MacB, MacBad},
                 accessType : {"trial", "superuser"}] :
          /\ op' = [op EXCEPT ![p] = c]
          /\ IF c.adminKey # "122316"
             THEN Finish(p, Fail("Invalid admin key"))
             ELSE IF ~kv_isValidMac(c.macAddress)
             THEN Finish(p, Fail("Invalid MAC address format"))
             ELSE IF c.accessType \notin {"trial", "unlimited", "admin"}
             THEN Finish(p, Fail("Invalid access type. Must be: trial, unlimited, or admin"))
             ELSE /\ pc' = [pc EXCEPT ![p] = "kv_get"]
                  /\ local' = [local EXCEPT ![p] =
                         [NoLocal EXCEPT !.norm = toLowerCase(c.macAddress)]]
                  /\ result' = [result EXCEPT ![p] = NoResult]
    /\ UNCHANGED <<faults, clock, pollMs, nextId, macdbVars, fileVars, kvData>>

\* getAllMacAddresses, lines 9-17: the stored value, or {} when there is
\* none or kv.get throws; then lines 163-182 of handleAddMac
handleAddMac_getAllMacAddresses(p) ==
    /\ pc[p] = "kv_get"
    /\ \E allMacs \in {kvData} \cup (IF faults > 0 THEN {<<>>} ELSE {}) :
          /\ faults' = IF allMacs = kvData THEN faults ELSE faults - 1
          /\ IF Has(allMacs, local[p].norm)
             THEN /\ Finish(p, Fail("MAC address already exists in whitelist"))
                  /\ UNCHANGED clock
             ELSE \E tick \in 0..1 :
                  /\ clock' = clock + tick
                  /\ pc' = [pc EXCEPT ![p] = "kv_set"]
                  /\ local' = [local EXCEPT ![p].data =
                         [macAddresses |->
                             Put(allMacs, local[p].norm,
                                 [macAddress |-> local[p].norm,
                                  accessType |-> op[p].accessType, addedAt |-> clock',
                                  accessCount |-> 0, lastSeen |-> NoTime])]]
                  /\ UNCHANGED result
    /\ UNCHANGED <<op, budget, pollMs, nextId, macdbVars, fileVars, kvData>>

\* saveAllMacAddresses, lines 20-28: kv.set replaces the stored value, or
\* throws and false is returned; then lines 185-202 of handleAddMac
handleAddMac_saveAllMacAddresses(p) ==
    /\ pc[p] = "kv_set"
    /\ \/ /\ kvData' = local[p].data.macAddresses
          /\ Finish(p, [kind |-> "return", success |-> TRUE,
                        message |-> "MAC address added successfully",
                        macAddress |-> local[p].norm])
          /\ UNCHANGED faults
       \/ /\ faults > 0
          /\ faults' = faults - 1
          /\ Finish(p, Fail("Failed to save MAC address to database"))
          /\ UNCHANGED kvData
    /\ UNCHANGED <<op, budget, clock, pollMs, nextId, macdbVars, fileVars>>

KvCalls == 2     \* requests each of the two clients sends

KvInit ==
    /\ Constructed(KvCalls, KvCalls)
    /\ faults \in {0, 1}

KvNext ==
    \/ \E p \in Clients : handleAddMac(p)
    \/ \E p \in Clients : handleAddMac_getAllMacAddresses(p)
    \/ \E p \in Clients : handleAddMac_saveAllMacAddresses(p)

SpecKv == KvInit /\ [][KvNext]_vars

----------------------------------------------------------------------------
(* MacDatabase whose lock file was left behind by a holder that is gone:    *)
(* nobody will ever unlink it                                              *)

Crashed == "crashed"

StaleInit ==
    /\ pc = [p \in Tasks |-> IF p = InitTask THEN "done" ELSE "idle"]
    /\ op = [p \in Tasks |-> NoCall]
    /\ local = [p \in Tasks |-> NoLocal]
    /\ result = [p \in Tasks |-> NoResult]
    /\ \/ /\ pollMs = PollIntervalMs
          /\ budget = [p \in Tasks |-> IF p = "c1" THEN MaxCalls ELSE 0]
       \/ /\ pollMs = SlowPollMs
          /\ budget = [p \in Tasks |-> IF p = InitTask THEN 0 ELSE MaxCalls]
    /\ faults = 0
    /\ clock = 1
    /\ nextId = 1
    /\ dbDir = TRUE
    /\ dbFile = Json(macdb_initialData)
    /\ lockFile = Crashed
    /\ dataDir = FALSE
    /\ backupDir = FALSE
    /\ macFile = NoFile
    /\ tmpFile = NoFile
    /\ backups = <<>>
    /\ logFile = NoFile
    /\ kvData = <<>>

StaleNext ==
    \/ \E p \in Clients : macdb_begin(p)
    \/ \E p \in Clients : macdb_acquireLock(p)

\* the timers of the event loop fire: a task sleeping in acquireLock's loop
\* runs its next pass
SpecStaleLock ==
    /\ StaleInit
    /\ [][StaleNext]_vars
    /\ \A p \in Clients : WF_vars(macdb_acquireLock(p))

----------------------------------------------------------------------------
(* MacDatabase after init() has finished, on a database that holds one      *)
(* address; two clients calling concurrently                               *)

\* the database after init() and addMacAddress(MacA)
macdb_SeedData ==
    [macAddresses |-> Put(<<>>, MacA, macdb_newEntry(1)), totalEntries |-> 1]

AuthInit ==
    /\ pc = [p \in Tasks |-> IF p = InitTask THEN "done" ELSE "idle"]
    /\ op = [p \in Tasks |-> NoCall]
    /\ local = [p \in Tasks |-> NoLocal]
    /\ result = [p \in Tasks |-> NoResult]
    /\ budget = [p \in Tasks |-> IF p = InitTask THEN 0 ELSE MaxCalls]
    /\ faults = 0
    /\ clock = 1
    /\ pollMs = SlowPollMs
    /\ nextId = 1
    /\ dbDir = TRUE
    /\ dbFile = Json(macdb_SeedData)
    /\ lockFile = NoLock
    /\ dataDir = FALSE
    /\ backupDir = FALSE
    /\ macFile = NoFile
    /\ tmpFile = NoFile
    /\ backups = <<>>
    /\ logFile = NoFile
    /\ kvData = <<>>

AuthNext ==
    \/ \E p \in Clients : macdb_begin(p)
    \/ \E p \in Clients : macdb_acquireLock(p)
    \/ \E p \in Clients : macdb_readDatabase_read(p)
    \/ \E p \in Clients : macdb_readDatabase_release(p)
    \/ \E p \in Clients : macdb_writeDatabase_open(p)
    \/ \E p \in Clients : macdb_writeDatabase_write(p)
    \/ \E p \in Clients : macdb_writeDatabase_release(p)

SpecAuth == AuthInit /\ [][AuthNext]_vars

----------------------------------------------------------------------------
(* MACDatabase after initializeDatabase has finished, on a whitelist that    *)
(* is empty or holds another address: one client making the calls of the   *)
(* life of one address, in order                                           *)

Scenario ==
    << [name |-> "addMACAddress", macAddress |-> MacA, accessType |-> "trial"],
       [name |-> "checkAccess", macAddresses |-> <<MacA>>],
       [name |-> "updateMACAccess", macAddress |-> MacA, accessType |-> "unlimited"],
       [name |-> "removeMACAddress", macAddress |-> MacA],
       [name |-> "checkAccess", macAddresses |-> <<MacA>>] >>

\* the number of calls of the scenario the client has started
Started == Len(Scenario) - budget["c1"]

\* the whitelist after an earlier addMACAddress(MacB, 'unlimited')
SeedOther ==
    [macAddresses |-> Put(<<>>, MacB, newEntry("unlimited", 1, 1)),
     totalAccesses |-> 0, totalDevices |-> 1]

ScenarioInit ==
    /\ \E whitelist \in {initialData, SeedOther} :
          Initialized(Len(Scenario), whitelist, <<>>, 0)
    /\ faults = 0

\* fs.move never reaches its rename here: this.macFile exists throughout
ScenarioNext ==
    \/ begin("c1", {Scenario[Started + 1]})
    \/ readDatabase("c1")
    \/ backupDatabase_exists("c1")
    \/ backupDatabase_copy("c1")
    \/ backupDatabase_readdir("c1")
    \/ writeDatabase_open("c1")
    \/ writeDatabase_write("c1")
    \/ writeDatabase_moveCheck("c1")
    \/ logAccess_exists("c1")
    \/ logAccess_read("c1")
    \/ logAccess_open("c1")
    \/ logAccess_write("c1")

SpecScenario == ScenarioInit /\ [][ScenarioNext]_vars

----------------------------------------------------------------------------
(* Properties *)

AddReturned(p) ==
    /\ pc[p] = "idle"
    /\ op[p].name = "addMacAddress"
    /\ result[p].kind = "return"
    /\ result[p].success

\* C1: when concurrent adds of distinct MAC addresses have all returned
\* success, the committed store holds every one of those addresses.
C1_NoLostAdd ==
    \A p, q \in Clients :
        (AddReturned(p) /\ AddReturned(q) /\ result[p].macAddress # result[q].macAddress)
        => /\ dbFile.kind = "json"
           /\ {result[p].macAddress, result[q].macAddress}
                 \subseteq DOMAIN dbFile.doc.macAddresses

\* task p has opened the file it writes the whitelist to and has not yet
\* finished putting it in place
Writing(p) == pc[p] \in {"w_write", "w_check", "w_rename"}

\* C2: writes of the whitelist exclude one another: at any moment at most
\* one operation is inside its write.
C2_SingleWriter ==
    \A p, q \in Clients : (Writing(p) /\ Writing(q)) => p = q

\* C3: no read of the whitelist finds a partially written file.
C3_WholeSnapshot ==
    \A p \in Clients : local[p].saw # "TORN"

LockTimeout == [kind |-> "throw", message |-> "Could not acquire database lock"]

\* C4: while the lock file is never removed, acquireLock stops polling once
\* its timeout has elapsed, and every call that waits for the lock ends by
\* throwing the lock-timeout error.
C4_BoundedAcquire ==
    /\ [](\A p \in Clients : local[p].waited < LockTimeoutMs + pollMs)
    /\ \A p \in Clients : (pc[p] = "r_acq") ~> Returned(p, LockTimeout)

C4_TimedOut ==
    \E p \in Clients : Returned(p, LockTimeout) /\ lockFile = Crashed

Mutators == {"addMACAddress", "updateMACAccess", "removeMACAddress", "bulkAddMACs"}

\* C5: of the steps of an add, update, remove or bulk add, only the one that
\* returns success changes the committed whitelist, and success is returned
\* only by the step that puts the call's document in place: a call whose
\* write failed returns success = false and has left the file as it was.
C5_FailedWriteReported ==
    [][\A p \in Clients :
          (op[p].name \in Mutators /\ pc[p] # "idle") =>
             /\ (macFile' # macFile /\ (pc'[p] # pc[p] \/ local'[p] # local[p]))
                   => (pc'[p] = "idle" /\ result'[p].success)
             /\ (pc'[p] = "idle" /\ result'[p].success)
                   => macFile' = Json(local[p].data)]_vars

C5_WriteFailed ==
    \E p \in Clients :
        /\ pc[p] = "idle"
        /\ op[p].name \in Mutators
        /\ result[p] \in {Fail("Failed to save to database"),
                          Fail("Failed to save bulk changes to database")}

\* C6: when checkAccess has returned success, the committed whitelist holds
\* the matched entry with the access count the response reports.
C6_CheckPersisted ==
    \A p \in Clients :
        (/\ pc[p] = "idle"
         /\ op[p].name = "checkAccess"
         /\ result[p].kind = "return"
         /\ result[p].success)
        => /\ macFile.kind = "json"
           /\ Has(macFile.doc.macAddresses, result[p].macAddress)
           /\ macFile.doc.macAddresses[result[p].macAddress].accessCount
                 = result[p].accessCount

\* C7: once a call has replaced the committed whitelist and returned
\* success, a backup of the file it replaced exists.
C7_BackupBeforeWrite ==
    \A p \in Clients :
        (/\ pc[p] = "idle"
         /\ op[p].name \in {"addMacAddress", "removeMacAddress"}
         /\ result[p].kind = "return"
         /\ result[p].success)
        => DOMAIN backups # {}

\* backupDatabase has just returned to task p
BackupDone(p) == pc[p] \in {"w_open", "m_exists"}

\* C8: when backupDatabase returns, at most MaxBackups backups exist, and
\* every backup its pruning removes is older than every backup that stays
\* and is not the one just taken.
C8_Retention ==
    /\ [](\A p \in Clients : BackupDone(p) => Cardinality(DOMAIN backups) <= MaxBackups)
    /\ [][\A p \in Clients :
             (pc[p] = "b_remove" /\ backups' # backups) =>
                \A gone \in DOMAIN backups \ DOMAIN backups' :
                   /\ gone # local[p].ts
                   /\ \A kept \in DOMAIN backups' : gone < kept]_vars

C8_Pruned ==
    \E p \in Clients :
        /\ BackupDone(p)
        /\ Cardinality(DOMAIN backups) = MaxBackups
        /\ 1 \notin DOMAIN backups

\* C9: the log never holds more than MaxLogEvents entries; its entries are
\* in the order they were appended, without gaps; and between calls it ends
\* with the entry appended last, so it holds exactly the most recent ones.
C9_LogBounded ==
    logFile.kind = "json" =>
       LET ev == logFile.doc.accessEvents
           appended == nextId - 2
       IN  /\ Len(ev) <= MaxLogEvents
           /\ \A i \in 1..(Len(ev) - 1) : ev[i + 1].id = ev[i].id + 1
           /\ pc["c1"] = "idle" =>
                 /\ Len(ev) = IF appended < MaxLogEvents THEN appended ELSE MaxLogEvents
                 /\ Len(ev) > 0 => ev[Len(ev)].id = nextId - 1

C9_Evicted ==
    /\ logFile.kind = "json"
    /\ pc["c1"] = "idle"
    /\ Len(logFile.doc.accessEvents) = MaxLogEvents
    /\ logFile.doc.accessEvents[1].id > 2

\* the keys of the committed whitelist that denote the hardware address
\* the string s denotes
KeysFor(s) ==
    IF macFile.kind = "json"
    THEN {k \in DOMAIN macFile.doc.macAddresses : HexDigits(k) = HexDigits(s)}
    ELSE {}

\* C10: no two stored keys denote the same hardware address; add, update
\* and remove look an address up under the key it is stored under, however
\* it is spelled; and checkAccess denies no candidate whose address is stored.
C10_OneKeyPerAddress ==
    /\ \A s \in {MacA, MacB} : Cardinality(KeysFor(s)) <= 1
    /\ \A p \in Clients :
          (pc[p] # "idle" /\ op[p].name \in {"addMACAddress", "updateMACAccess",
                                             "removeMACAddress"})
          => \A k \in KeysFor(op[p].macAddress) : local[p].norm = k
    /\ \A p \in Clients :
          (/\ pc[p] = "idle"
           /\ op[p].name = "checkAccess"
           /\ result[p].kind = "return"
           /\ ~result[p].success)
          => \A i \in 1..Len(op[p].macAddresses) : KeysFor(op[p].macAddresses[i]) = {}

Matches(p) ==
    LET data == readDatabase_value(macFile)
        list == op[p].macAddresses
    IN  {i \in 1..Len(list) : Has(data.macAddresses, toLowerCase(list[i]))}

\* C12: when some candidate of checkAccess is whitelisted, the candidate
\* that comes first in the supplied list is the one matched: its entry, and
\* no other, is changed in the document the call writes; the success
\* response names it and carries its new count; and when the call returns
\* the committed whitelist holds that entry with that count and every other
\* entry as it was read.
C12_FirstMatchWins ==
    [][\A p \in Clients :
          /\ (pc[p] = "r" /\ pc'[p] # pc[p] /\ op[p].name = "checkAccess"
                 /\ Matches(p) # {})
             => LET i == CHOOSE j \in Matches(p) : \A k \in Matches(p) : j <= k
                    mac == toLowerCase(op[p].macAddresses[i])
                    before == readDatabase_value(macFile).macAddresses
                    after == local'[p].data.macAddresses
                IN  /\ local'[p].norm = mac
                    /\ DOMAIN after = DOMAIN before
                    /\ \A k \in DOMAIN before \ {mac} : after[k] = before[k]
                    /\ after[mac].accessCount = before[mac].accessCount + 1
          /\ (pc[p] # "idle" /\ pc'[p] = "idle" /\ op[p].name = "checkAccess"
                 /\ result'[p].success)
             => /\ result'[p].macAddress = local[p].norm
                /\ result'[p].accessCount
                      = local[p].data.macAddresses[local[p].norm].accessCount
                /\ macFile'.kind = "json"
                /\ macFile'.doc.macAddresses = local[p].data.macAddresses]_vars

\* C13: a checkAccess that matched no candidate returns a failure whose data
\* are the submitted candidates and nothing else, whatever the whitelist
\* holds.
C13_DenialEchoesInput ==
    \A p \in Clients :
        (/\ pc[p] = "idle"
         /\ op[p].name = "checkAccess"
         /\ result[p].kind = "return"
         /\ ~result[p].success)
        => /\ result[p].message = "Device not authorized. MAC address not in whitelist."
           /\ result[p].data = [kind |-> "object", providedMacs |-> op[p].macAddresses]

\* C14: checkAccess matching an entry that has never been used sets its
\* accessCount to 1 and its lastSeen to a time not before the call, returns
\* success, and when it returns the committed whitelist holds the entry
\* with these values.
C14_FirstCheckCounted ==
    [][\A p \in Clients :
          /\ (pc[p] = "r" /\ pc'[p] # pc[p] /\ op[p].name = "checkAccess"
                 /\ Matches(p) # {})
             => LET mac == local'[p].norm
                    before == readDatabase_value(macFile).macAddresses[mac]
                    after == local'[p].data.macAddresses[mac]
                IN  /\ before.accessCount = 0 => after.accessCount = 1
                    /\ after.lastSeen # NoTime
                    /\ after.lastSeen >= clock
          /\ (pc[p] # "idle" /\ pc'[p] = "idle" /\ op[p].name = "checkAccess"
                 /\ result'[p].kind = "return" /\ Matches(p) # {})
             => LET mac == local[p].norm
                    entry == local[p].data.macAddresses[mac]
                IN  /\ result'[p].success
                    /\ result'[p].accessCount = entry.accessCount
                    /\ result'[p].lastSeen = entry.lastSeen
                    /\ macFile'.kind = "json"
                    /\ Has(macFile'.doc.macAddresses, mac)
                    /\ macFile'.doc.macAddresses[mac].accessCount = entry.accessCount
                    /\ macFile'.doc.macAddresses[mac].lastSeen = entry.lastSeen]_vars

\* C15: a write that replaces the committed database leaves no entry that
\* stays in it with a smaller accessCount than the committed one.
C15_CountNeverDecreases ==
    [][\A p \in Clients :
          (pc[p] = "w_open" /\ pc'[p] = "w_write" /\ dbFile.kind = "json")
          => LET old == dbFile.doc.macAddresses
                 new == local[p].data.macAddresses
             IN  \A k \in DOMAIN old \cap DOMAIN new :
                    new[k].accessCount >= old[k].accessCount]_vars

\* C16: in the sequence add, checkAccess, updateMACAccess, removeMACAddress,
\* checkAccess on one address, the first four calls return success, the
\* first check with accessCount 1, and the last check is denied.
C16_LifeOfAnAddress ==
    (pc["c1"] = "idle" /\ result["c1"].kind = "return")
    => /\ Started \in 1..4 => result["c1"].success
       /\ Started = 2 => result["c1"].accessCount = 1
       /\ Started = 5 => result["c1"] = checkAccess_denied

\* C17: removeMACAddress of an address that is no key of the whitelist
\* returns success = false with the not-found message and leaves the
\* whitelist file, the backups and the log as they were, and so the entries
\* and the statistics listMACAddresses computes from them.
C17_RemoveMissingChangesNothing ==
    [][\A p \in Clients :
          (/\ pc[p] = "r"
           /\ pc'[p] # pc[p]
           /\ op[p].name = "removeMACAddress"
           /\ ~Has(readDatabase_value(macFile).macAddresses, toLowerCase(op[p].macAddress)))
          => /\ pc'[p] = "idle"
             /\ result'[p] = Fail("MAC address not found in whitelist")
             /\ fileVars' = fileVars
             /\ listMACAddresses_statistics(readDatabase_value(macFile'), clock)
                   = listMACAddresses_statistics(readDatabase_value(macFile), clock)]_vars

C17_MissingReported ==
    \E p \in Clients :
        /\ Returned(p, Fail("MAC address not found in whitelist"))
        /\ op[p].name = "removeMACAddress"
        /\ op[p].macAddress = MacB
        /\ macFile = Json(SeedData)

\* C18: the statistics listMACAddresses returns have total equal to the
\* number of entries of the committed whitelist, and to the number of
\* entries it returns.
C18_TotalIsEntryCount ==
    [][\A p \in Clients :
          (/\ pc[p] = "r"
           /\ pc'[p] = "idle"
           /\ op[p].name = "listMACAddresses")
          => /\ result'[p].success
             /\ result'[p].statistics.total
                   = Cardinality(DOMAIN readDatabase_value(macFile).macAddresses)
             /\ result'[p].statistics.total = Cardinality(DOMAIN result'[p].macAddresses)]_vars

C18_ListedAfterAdds ==
    \E p \in Clients :
        /\ pc[p] = "idle"
        /\ op[p].name = "listMACAddresses"
        /\ result[p].kind = "return"
        /\ result[p].statistics.total = 2
        /\ macFile.kind = "json"
        /\ DOMAIN macFile.doc.macAddresses = {MacA, MacB}

\* C19: the statistics listMACAddresses returns have totalAccesses equal to
\* the sum of the accessCount of the entries it returns.
C19_TotalAccessesIsSum ==
    [][\A p \in DOMAIN pc :
          (/\ pc[p] = "r"
           /\ pc'[p] = "idle"
           /\ op[p].name = "listMACAddresses")
          => LET listed == result'[p].macAddresses
                 RECURSIVE Sum(_)
                 Sum(keys) == IF keys = {} THEN 0
                              ELSE LET k == CHOOSE x \in keys : TRUE
                                   IN  listed[k].accessCount + Sum(keys \ {k})
             IN  result'[p].statistics.totalAccesses = Sum(DOMAIN listed)]_vars

\* C20: updateMACAccess of an address that is no key of the whitelist
\* fails as not found, and with an access type other than trial, unlimited
\* and admin it fails as an invalid access type, both straight after the
\* read and with every file as it was; otherwise the call returns success
\* and the committed entry has the new accessType and an updatedAt not
\* before the call.
C20_UpdateAccessType ==
    [][\A p \in Clients :
          (op[p].name = "updateMACAccess" /\ pc[p] # "idle" /\ pc'[p] # pc[p])
          => LET n == toLowerCase(op[p].macAddress)
                 absent == ~Has(readDatabase_value(macFile).macAddresses, n)
                 invalid == op[p].accessType \notin {"trial", "unlimited", "admin"}
             IN  /\ (pc[p] = "r" /\ absent)
                       => /\ pc'[p] = "idle"
                          /\ result'[p] = Fail("MAC address not found in whitelist")
                          /\ fileVars' = fileVars
                 /\ (pc[p] = "r" /\ ~absent /\ invalid)
                       => /\ pc'[p] = "idle"
                          /\ result'[p] =
                                Fail("Invalid access type. Must be: trial, unlimited, or admin")
                          /\ fileVars' = fileVars
                 /\ (pc[p] # "r" /\ pc'[p] = "idle")
                       => /\ result'[p].success
                          /\ macFile'.kind = "json"
                          /\ Has(macFile'.doc.macAddresses, n)
                          /\ macFile'.doc.macAddresses[n].accessType = op[p].accessType
                          /\ macFile'.doc.macAddresses[n].updatedAt = local[p].ts]_vars

\* C21: a bulkAddMACs of two MAC addresses and one string that is no MAC
\* address, on a whitelist holding none of them, that reports success has
\* added the two, reports added = 2 and skipped = 1, lists the malformed
\* item as not added, and has not stored it.
C21_BulkSkipsMalformed ==
    [][\A p \in Clients :
          (/\ op[p].name = "bulkAddMACs"
           /\ pc[p] # "idle"
           /\ pc'[p] = "idle"
           /\ result'[p].success)
          => /\ result'[p].added = 2
             /\ result'[p].skipped = 1
             /\ result'[p].results[2].status # "added"
             /\ macFile'.kind = "json"
             /\ DOMAIN macFile'.doc.macAddresses = {MacA, MacB}]_vars

\* C22: one importMacAddresses call opens the database file for writing at
\* most once: when it does, no earlier item of the same call has been
\* written.
C22_OneWritePerBulk ==
    [][\A p \in Clients :
          (/\ "list" \in DOMAIN op[p]
           /\ pc[p] = "w_open"
           /\ pc'[p] = "w_write")
          => \A k \in 1..Len(op[p].results) :
                ~(op[p].results[k].kind = "return" /\ op[p].results[k].success)]_vars

\* C23: when maintenance returns, the committed whitelist has no entry left
\* to fix, so that a second run straight after it reports zero fixes.
C23_MaintenanceIdempotent ==
    [][\A p \in Clients :
          (/\ op[p].name = "maintenance"
           /\ pc[p] # "idle"
           /\ pc'[p] = "idle"
           /\ result'[p].success)
          => LET data == readDatabase_value(macFile')
             IN  maintenance_sweep(data.macAddresses, DOMAIN data.macAddresses,
                    [macAddresses |-> <<>>, id |-> nextId', fixedCount |-> 0]).fixedCount = 0]_vars

\* C24: getAccessLogs(limit) returns at most limit events, and they are the
\* events appended last to the log, the last appended first.
C24_LatestFirst ==
    [][\A p \in Clients :
          (/\ op[p].name = "getAccessLogs"
           /\ pc[p] = "g_read"
           /\ pc'[p] = "idle"
           /\ logFile.kind = "json")
          => LET accessEvents == logFile.doc.accessEvents
                 logs == result'[p].logs
             IN  /\ result'[p].success
                 /\ Len(logs) <= op[p].limit
                 /\ Len(logs) = IF op[p].limit < Len(accessEvents)
                                THEN op[p].limit ELSE Len(accessEvents)
                 /\ \A k \in 1..Len(logs) :
                       logs[k] = accessEvents[Len(accessEvents) - k + 1]]_vars

\* C25: the event of a checkAccess is appended to the events the log holds,
\* none of which is dropped or changed: when logAccess opens the log file to
\* write it, the events it is about to write begin with the events the file
\* holds, up to the eviction of the oldest beyond MaxLogEvents.
C25_LogOnlyGrows ==
    [][\A p \in Clients :
          (/\ op[p].name = "checkAccess"
           /\ pc[p] = "l_open"
           /\ pc'[p] = "l_write"
           /\ logFile.kind = "json")
          => LET held == logFile.doc.accessEvents
                 mine == local[p].logData
             IN  \/ /\ Len(mine) = Len(held) + 1
                    /\ SubSeq(mine, 1, Len(held)) = held
                 \/ /\ Len(mine) = MaxLogEvents
                    /\ Len(held) = MaxLogEvents
                    /\ SubSeq(mine, 1, MaxLogEvents - 1) = Tail(held)]_vars

\* C26: when addMACAddress, updateMACAccess, removeMACAddress or bulkAddMACs
\* returns success, the access log holds an event of it.
C26_MutationLogged ==
    [][\A p \in Clients :
          (/\ op[p].name \in Mutators
           /\ pc[p] # "idle"
           /\ pc'[p] = "idle"
           /\ result'[p].success)
          => /\ logFile'.kind = "json"
             /\ \E k \in 1..Len(logFile'.doc.accessEvents) :
                   logFile'.doc.accessEvents[k].success]_vars

\* C27: no call of MacDatabase ends by throwing the error of reading a
\* database file that is missing or holds no valid JSON.
C27_NoThrowOnCorruptSnapshot ==
    \A p \in Clients :
        ~(/\ pc[p] = "idle"
          /\ result[p].kind = "throw"
          /\ result[p].message = "read error")

\* C28: a mutation whose backup was not made (the copy of writeDatabase's
\* backupDatabase failed: no backup bears the call's timestamp) still commits
\* its document and returns success.
C28_WriteDespiteBackupFailure ==
    [][\A p \in Clients :
          (/\ op[p].name \in Mutators
           /\ pc[p] \in {"w_open", "w_check", "w_rename"}
           /\ pc'[p] = "idle"
           /\ local[p].ts \notin DOMAIN backups)
          => /\ result'[p].success
             /\ macFile' = Json(local[p].data)]_vars

\* C29: addMACAddress with a malformed MAC address is rejected in its
\* synchronous head: the call is never found reading, backing up or writing,
\* and what it returned is a failure.
C29_MalformedNeverReachesStorage ==
    \A p \in Clients :
        (op[p].name = "addMACAddress" /\ ~macdb_isValidMac(op[p].macAddress))
        => (pc[p] = "idle" /\ ~result[p].success)

\* C30: a malformed MAC address and a lock that could not be acquired are
\* never reported by an exception: no call of MacDatabase has ended by
\* throwing one of these two errors.
C30_ExpectedConditionsReturned ==
    \A p \in Clients :
        result[p].kind = "throw"
        => result[p].message \notin {"Invalid MAC address format",
                                     "Could not acquire database lock"}

\* C31: the access log is replaced atomically: a log file that holds a
\* complete document holds a complete document after every step, so no
\* reader finds it partly written.
C31_LogNeverPartial ==
    [][logFile.kind = "json" => logFile'.kind = "json"]_vars

\* C32: two calls in progress whose MAC arguments denote the same hardware
\* address (they differ in case or separator only) work under the same
\* normalized string.
C32_SameAddressSameNormalForm ==
    \A p, q \in Clients :
        LET Arg(t) == IF "mac" \in DOMAIN op[t] THEN op[t].mac ELSE op[t].macAddress
            HasArg(t) == pc[t] # "idle" /\ local[t].norm # <<>>
                         /\ ("mac" \in DOMAIN op[t] \/ "macAddress" \in DOMAIN op[t])
        IN  (HasArg(p) /\ HasArg(q) /\ HexDigits(Arg(p)) = HexDigits(Arg(q)))
            => local[p].norm = local[q].norm

\* C33: a maintenance run that reports fixed entries has persisted them: at
\* its return the committed whitelist is the swept document, in which every
\* entry has an id and an accessType.
C33_SweepPersisted ==
    [][\A p \in Clients :
          (/\ op[p].name = "maintenance"
           /\ pc[p] # "idle"
           /\ pc'[p] = "idle"
           /\ result'[p].success
           /\ result'[p].entriesFixed > 0)
          => /\ macFile' = Json(local[p].data)
             /\ \A k \in DOMAIN macFile'.doc.macAddresses :
                   /\ macFile'.doc.macAddresses[k].id # NoId
                   /\ macFile'.doc.macAddresses[k].accessType # NoType]_vars

\* C34: the entriesFixed a maintenance run returns is the number of entries
\* of the whitelist it read that lacked an id, an accessType or both.
C34_EntriesFixedCountsEntries ==
    [][\A p \in Clients :
          (/\ op[p].name = "maintenance"
           /\ pc[p] # "idle"
           /\ pc'[p] = "idle"
           /\ result'[p].success)
          => LET was == readDatabase_value(macFile).macAddresses
             IN  result'[p].entriesFixed =
                    Cardinality({k \in DOMAIN was : \/ was[k].id = NoId
                                                    \/ was[k].accessType = NoType})]_vars

\* C35: a successful bulkAddMACs returns total = the length of its list =
\* added + skipped, and one result per item in the order of the list, under
\* the item's lower-cased address; an item that repeats the address of an
\* earlier item is skipped, and an item that is added is in the document
\* the call wrote.
C35_BulkSummary ==
    [][\A p \in Clients :
          (/\ op[p].name = "bulkAddMACs"
           /\ pc[p] # "idle"
           /\ pc'[p] = "idle"
           /\ result'[p].success)
          => LET r == result'[p]
                 list == op[p].list
                 Norm(i) == toLowerCase(list[i].macAddress)
             IN  /\ r.total = Len(list)
                 /\ r.added + r.skipped = r.total
                 /\ Len(r.results) = Len(list)
                 /\ Cardinality({i \in 1..Len(list) : r.results[i].status = "added"}) = r.added
                 /\ Cardinality({i \in 1..Len(list) : r.results[i].status = "skipped"}) = r.skipped
                 /\ \A i \in 1..Len(list) :
                       /\ r.results[i].macAddress = Norm(i)
                       /\ (\E j \in 1..(i - 1) : Norm(j) = Norm(i))
                             => r.results[i].status = "skipped"
                       /\ r.results[i].status = "added"
                             => Has(macFile'.doc.macAddresses, Norm(i))]_vars

\* a bulkAddMACs whose list repeats an address has returned success
C35_RepeatSkipped ==
    \E p \in Clients :
        /\ op[p].name = "bulkAddMACs"
        /\ pc[p] = "idle"
        /\ result[p].kind = "return"
        /\ result[p].success
        /\ result[p].skipped = 1
        /\ result[p].added = 2
        /\ result[p].results[3].status = "skipped"

\* C36: an entry that is in the committed whitelist before and after a step
\* has the same id and the same addedAt after it.
C36_IdAndAddedAtStable ==
    [][(macFile.kind = "json" /\ macFile'.kind = "json")
          => \A k \in DOMAIN macFile.doc.macAddresses \cap DOMAIN macFile'.doc.macAddresses :
                /\ macFile'.doc.macAddresses[k].id = macFile.doc.macAddresses[k].id
                /\ macFile'.doc.macAddresses[k].addedAt = macFile.doc.macAddresses[k].addedAt]_vars

\* C37: in the committed whitelist, in the temporary file, in every backup
\* and in the document of every call in progress, an entry's lastSeen is
\* null exactly when its accessCount is 0.
C37_LastSeenIffCounted ==
    LET Sound(macAddresses) ==
            \A k \in DOMAIN macAddresses :
                (macAddresses[k].lastSeen = NoTime) <=> (macAddresses[k].accessCount = 0)
        SoundFile(f) == f.kind = "json" => Sound(f.doc.macAddresses)
    IN  /\ SoundFile(macFile)
        /\ SoundFile(tmpFile)
        /\ \A t \in DOMAIN backups : SoundFile(backups[t])
        /\ \A p \in Clients : Sound(local[p].data.macAddresses)

\* a checkAccess has written the document in which the matched entry has
\* been seen once, next to an entry never seen
C37_SeenOnceWritten ==
    /\ tmpFile.kind = "json"
    /\ \E j, k \in DOMAIN tmpFile.doc.macAddresses :
          /\ tmpFile.doc.macAddresses[j].accessCount = 1
          /\ tmpFile.doc.macAddresses[j].lastSeen # NoTime
          /\ tmpFile.doc.macAddresses[k].accessCount = 0
          /\ tmpFile.doc.macAddresses[k].lastSeen = NoTime

\* C38: every entry of the committed whitelist has an accessType that is one
\* of trial, unlimited, admin.
C38_AccessTypeInEnum ==
    macFile.kind = "json"
    => \A k \in DOMAIN macFile.doc.macAddresses :
          macFile.doc.macAddresses[k].accessType \in {"trial", "unlimited", "admin"}

\* C39: once initializeDatabase has finished, the address of an
\* addMACAddress that returned success is in the committed whitelist.
C39_InitKeepsCommitted ==
    \A p \in Clients :
        (/\ pc[InitTask] = "done"
         /\ pc[p] = "idle"
         /\ op[p].name = "addMACAddress"
         /\ result[p].kind = "return"
         /\ result[p].success)
        => /\ macFile.kind = "json"
           /\ Has(macFile.doc.macAddresses, toLowerCase(op[p].macAddress))

\* C40: the step with which an add, an update or a remove commits and
\* returns success leaves every entry of the committed whitelist other than
\* the one of its own address present and unchanged, in mac-whitelist.json
\* for MACDatabase and in the stored value for the add-mac handler.
C40_OtherEntriesKept ==
    [][\A p \in Clients :
          (/\ op[p].name \in {"addMACAddress", "updateMACAccess", "removeMACAddress",
                              "handleAddMac"}
           /\ pc[p] # "idle"
           /\ pc'[p] = "idle"
           /\ result'[p].success)
          => /\ macFile.kind = "json"
                => \A k \in DOMAIN macFile.doc.macAddresses \ {local[p].norm} :
                      /\ macFile'.kind = "json"
                      /\ Has(macFile'.doc.macAddresses, k)
                      /\ macFile'.doc.macAddresses[k] = macFile.doc.macAddresses[k]
             /\ \A k \in DOMAIN kvData \ {local[p].norm} :
                   /\ Has(kvData', k)
                   /\ kvData'[k] = kvData[k]]_vars

====
